---- MODULE Spec2Model ----
(***************************************************************************)
(* Extraction / normalisation / outlier-detection pipeline of the          *)
(* cannabis-intelligence-index repository:                                 *)
(*   src/src/ingestion/data_extractor.py     CannabisDataExtractor         *)
(*   src/src/processing/medallion_processor.py  MedallionProcessor         *)
(*   src/src/utils/outlier_detection.py      CannabisOutlierDetector       *)
(*                                                                         *)
(* Text is a sequence of one-character strings.  Numbers are fixed-point   *)
(* integers in hundredths (Scale), so 18.5 is written 1850.                *)
(***************************************************************************)
EXTENDS Integers, Sequences, FiniteSets, TLC

(***************************************************************************)
(* Text helpers (Python str methods)                                       *)
(***************************************************************************)

\* Python None for a text value: a one-element sequence that is no text
\* (its element is not a single character).
None == <<"None">>

\* str.lower() on one character
LowerChar(c) ==
    LET Upper == <<"A","B","C","D","E","F","G","H","I","J","K","L","M",
                   "N","O","P","Q","R","S","T","U","V","W","X","Y","Z">>
        Lower == <<"a","b","c","d","e","f","g","h","i","j","k","l","m",
                   "n","o","p","q","r","s","t","u","v","w","x","y","z">>
    IN  IF c \in {"A","B","C","D","E","F","G","H","I","J","K","L","M",
                  "N","O","P","Q","R","S","T","U","V","W","X","Y","Z"}
        THEN Lower[CHOOSE i \in 1..26 : Upper[i] = c]
        ELSE c

\* str.lower()
ToLower(s) == <<>> \o [i \in 1..Len(s) |-> LowerChar(s[i])]

Digits == {"0","1","2","3","4","5","6","7","8","9"}
\* characters that str.strip() removes and that \s matches
Whitespace == {" ", "\n", "\t"}

\* "needle in hay" for Python strings
Contains(hay, needle) ==
    \E i \in 1..(Len(hay) - Len(needle) + 1) :
        \A j \in 1..Len(needle) : hay[i + j - 1] = needle[j]

\* str.strip()
Strip(s) ==
    LET keep == {i \in 1..Len(s) : s[i] \notin Whitespace}
    IN  IF keep = {} THEN <<>>
        ELSE LET a == CHOOSE i \in keep : \A j \in keep : i <= j
                 b == CHOOSE i \in keep : \A j \in keep : j <= i
             IN  SubSeq(s, a, b)

RECURSIVE JoinWith(_, _)
\* sep.join(parts)
JoinWith(parts, sep) ==
    IF parts = <<>> THEN <<>>
    ELSE IF Len(parts) = 1 THEN parts[1]
    ELSE parts[1] \o sep \o JoinWith(Tail(parts), sep)

(***************************************************************************)
(* Regular expressions (Python re): a pattern is a tree of nodes; MatchAt  *)
(* is the backtracking matcher with re's priorities (alternatives left to  *)
(* right, greedy repetition longest first, lazy repetition shortest        *)
(* first).                                                                 *)
(***************************************************************************)
Lit(cs)      == [k |-> "lit", cs |-> cs]                    \* literal text
Star(set)    == [k |-> "rep", neg |-> FALSE, set |-> set, min |-> 0, max |-> 0, greedy |-> TRUE]
Plus(set)    == [k |-> "rep", neg |-> FALSE, set |-> set, min |-> 1, max |-> 0, greedy |-> TRUE]
NotPlusLazy(set) == [k |-> "rep", neg |-> TRUE, set |-> set, min |-> 1, max |-> 0, greedy |-> FALSE]
NotStarLazy(set) == [k |-> "rep", neg |-> TRUE, set |-> set, min |-> 0, max |-> 0, greedy |-> FALSE]
Opt(r)       == [k |-> "opt", r |-> r]                      \* r?
Alt(rs)      == [k |-> "alt", rs |-> rs]                    \* r1|r2|...
Cat(rs)      == [k |-> "cat", rs |-> rs]                    \* r1 r2 ...
Grp(n, r)    == [k |-> "grp", n |-> n, r |-> r]             \* capture group n
Eol          == [k |-> "eol"]                               \* $ under re.MULTILINE

NoMatch == [ok |-> FALSE]
NoCaps  == [n \in 1..2 |-> <<0, 0>>]

InCls(c, node) == IF node.neg THEN c \notin node.set ELSE c \in node.set

\* first position at or after i whose character is outside the class
RunEnd(s, node, i) ==
    CHOOSE j \in i..(Len(s) + 1) :
        /\ j = Len(s) + 1 \/ ~InCls(s[j], node)
        /\ \A k \in i..(j - 1) : InCls(s[k], node)

LitAt(s, ic, cs, i) ==
    /\ i + Len(cs) - 1 <= Len(s)
    /\ \A j \in 1..Len(cs) :
          IF ic THEN s[i + j - 1] = LowerChar(cs[j])
          ELSE s[i + j - 1] = cs[j]

SetMin(S) == CHOOSE x \in S : \A y \in S : x <= y
SetMax(S) == CHOOSE x \in S : \A y \in S : y <= x

RECURSIVE MatchAt(_, _, _, _, _)
\* match the nodes of stack, in order, from position i of s; ic is
\* re.IGNORECASE, and s is then the subject in lower case.  Result: NoMatch
\* or [ok, end, caps].
MatchAt(s, ic, stack, i, caps) ==
    IF stack = <<>> THEN [ok |-> TRUE, end |-> i, caps |-> caps]
    ELSE
      LET h    == Head(stack)
          rest == Tail(stack)
      IN
      CASE h.k = "lit" ->
             IF LitAt(s, ic, h.cs, i)
             THEN MatchAt(s, ic, rest, i + Len(h.cs), caps)
             ELSE NoMatch
        [] h.k = "rep" ->
             LET run  == RunEnd(s, h, i)
                 hi   == IF h.max = 1 /\ run > i THEN i + 1 ELSE run
                 good == {r \in {[e |-> e, m |-> MatchAt(s, ic, rest, e, caps)] :
                                    e \in (i + h.min)..hi} : r.m.ok}
             IN  IF good = {} THEN NoMatch
                 ELSE IF h.greedy
                      THEN (CHOOSE r \in good : \A q \in good : q.e <= r.e).m
                      ELSE (CHOOSE r \in good : \A q \in good : r.e <= q.e).m
        [] h.k = "opt" ->
             CHOOSE m \in {IF r.ok THEN r ELSE MatchAt(s, ic, rest, i, caps) :
                            r \in {MatchAt(s, ic, <<h.r>> \o rest, i, caps)}} : TRUE
        [] h.k = "alt" ->
             CHOOSE m \in {IF r.ok \/ Len(h.rs) = 1 THEN r
                            ELSE MatchAt(s, ic, <<Alt(Tail(h.rs))>> \o rest, i, caps) :
                            r \in {MatchAt(s, ic, <<h.rs[1]>> \o rest, i, caps)}} : TRUE
        [] h.k = "cat" -> MatchAt(s, ic, h.rs \o rest, i, caps)
        [] h.k = "grp" ->
             MatchAt(s, ic,
                     <<[k |-> "open", n |-> h.n], h.r, [k |-> "close", n |-> h.n]>>
                        \o rest, i, caps)
        [] h.k = "open" ->
             MatchAt(s, ic, rest, i, [caps EXCEPT ![h.n] = <<i, 0>>])
        [] h.k = "close" ->
             MatchAt(s, ic, rest, i, [caps EXCEPT ![h.n] = <<caps[h.n][1], i>>])
        [] h.k = "eol" ->
             IF i = Len(s) + 1 \/ (i <= Len(s) /\ s[i] = "\n")
             THEN MatchAt(s, ic, rest, i, caps)
             ELSE NoMatch

\* leftmost match of re starting at or after position from (re.search when
\* from = 1)
SearchFrom(s, ic, re, from) ==
    LET found == {r \in UNION {{[p |-> p, m |-> MatchAt(subject, ic, <<re>>, p, NoCaps)] :
                                    p \in from..(Len(s) + 1)} :
                                 subject \in {IF ic THEN ToLower(s) ELSE s}} : r.m.ok}
    IN  IF found = {} THEN NoMatch
        ELSE CHOOSE match \in
               {[ok |-> TRUE, start |-> r.p, end |-> r.m.end, caps |-> r.m.caps] :
                  r \in {q \in found : \A o \in found : q.p <= o.p}} : TRUE

\* match.group(n): the captured text, or None when the group took no part
Group(s, m, n) ==
    IF m.caps[n][2] = 0 THEN None
    ELSE SubSeq(s, m.caps[n][1], m.caps[n][2] - 1)

(***************************************************************************)
(* Numbers                                                                 *)
(***************************************************************************)
\* fixed-point unit: values are integers in hundredths
Scale == 100
N(x) == x * Scale

\* Python None / pandas NaN for a numeric value
Null == -1000000

RECURSIVE ParseInt(_)
\* int(text) for a text of decimal digits, unscaled
ParseInt(s) ==
    LET
        DigitVal(c) == CHOOSE d \in 0..9 : <<"0","1","2","3","4","5","6","7","8","9">>[d + 1] = c
    IN
    IF s = <<>> THEN 0
    ELSE 10 * ParseInt(SubSeq(s, 1, Len(s) - 1)) + DigitVal(s[Len(s)])

\* float(text) for text matching \d+(?:\.\d+)?, in hundredths (digits after
\* the second decimal are dropped)
ParseFloat(s) ==
    LET dots == {i \in 1..Len(s) : s[i] = "."}
    IN  IF dots = {} THEN N(ParseInt(s))
        ELSE LET d    == CHOOSE i \in dots : TRUE
                 frac == SubSeq(s, d + 1, Len(s)) \o <<"0", "0">>
             IN  N(ParseInt(SubSeq(s, 1, d - 1))) + ParseInt(SubSeq(frac, 1, 2))

(***************************************************************************)
(* MedallionProcessor (src/src/processing/medallion_processor.py)          *)
(***************************************************************************)
\* variant: a week counted as six days
ConversionRulesSixDayWeek ==
    [height    |-> [Short |-> N(80), Medium |-> N(120), Tall |-> N(180),
                    feet_to_cm |-> 3048],
     flowering |-> [weeks_to_days |-> 6]]

\* self.conversion_rules as set by __init__; feet_to_cm 30.48 and the
\* heights in hundredths
InitConversionRules ==
    [height    |-> [Short |-> N(80), Medium |-> N(120), Tall |-> N(180),
                    feet_to_cm |-> 3048],
     flowering |-> [weeks_to_days |-> 7]]

\* \d+(?:\.\d+)?
Decimal == Cat(<<Plus(Digits), Opt(Cat(<<Lit(<<".">>), Plus(Digits)>>))>>)

\* r'(\d+(?:\.\d+)?)\s*-?\s*(\d+(?:\.\d+)?)?\s*cm'
cm_pattern ==
    Cat(<<Grp(1, Decimal), Star(Whitespace), Opt(Lit(<<"-">>)), Star(Whitespace),
          Opt(Grp(2, Decimal)), Star(Whitespace), Lit(<<"c", "m">>)>>)

\* r'(\d+(?:\.\d+)?)\s*-?\s*(\d+(?:\.\d+)?)?\s*(?:feet|ft)'
feet_pattern ==
    Cat(<<Grp(1, Decimal), Star(Whitespace), Opt(Lit(<<"-">>)), Star(Whitespace),
          Opt(Grp(2, Decimal)), Star(Whitespace),
          Alt(<<Lit(<<"f", "e", "e", "t">>), Lit(<<"f", "t">>)>>)>>)

\* r'(\d+)\s*-?\s*(\d+)?\s*(?:weeks?|wks?)'
week_pattern ==
    Cat(<<Grp(1, Plus(Digits)), Star(Whitespace), Opt(Lit(<<"-">>)), Star(Whitespace),
          Opt(Grp(2, Plus(Digits))), Star(Whitespace),
          Alt(<<Cat(<<Lit(<<"w", "e", "e", "k">>), Opt(Lit(<<"s">>))>>),
                Cat(<<Lit(<<"w", "k">>), Opt(Lit(<<"s">>))>>)>>)>>)

\* r'(\d+)\s*-?\s*(\d+)?\s*days?'
day_pattern ==
    Cat(<<Grp(1, Plus(Digits)), Star(Whitespace), Opt(Lit(<<"-">>)), Star(Whitespace),
          Opt(Grp(2, Plus(Digits))), Star(Whitespace),
          Lit(<<"d", "a", "y">>), Opt(Lit(<<"s">>))>>)

\* r'(\d+(?:\.\d+)?)\s*-?\s*(\d+(?:\.\d+)?)?\s*%'
percent_pattern ==
    Cat(<<Grp(1, Decimal), Star(Whitespace), Opt(Lit(<<"-">>)), Star(Whitespace),
          Opt(Grp(2, Decimal)), Star(Whitespace), Lit(<<"%">>)>>)

\* rf'(\d+)\s*%\s*{genetics_type}'
genetics_pattern(genetics_type) ==
    Cat(<<Grp(1, Plus(Digits)), Star(Whitespace), Lit(<<"%">>), Star(Whitespace),
          Lit(genetics_type)>>)

\* Python truth value of an Optional[str]
Truthy(t) == t # None /\ t # <<>>

\* variant: a measurement in the text goes before a qualitative term
_extract_height_range_measurement_first(rules, height_raw, max_val) ==
    IF ~Truthy(height_raw) THEN Null
    ELSE
      LET height_lower == ToLower(height_raw)
          cm_match   == SearchFrom(height_raw, TRUE, cm_pattern, 1)
          feet_match == SearchFrom(height_raw, TRUE, feet_pattern, 1)
      IN
      IF cm_match.ok THEN
        LET min_val       == ParseFloat(Group(height_raw, cm_match, 1))
            max_val_found == Group(height_raw, cm_match, 2)
        IN  IF Truthy(max_val_found) /\ max_val THEN ParseFloat(max_val_found)
            ELSE min_val
      ELSE IF feet_match.ok THEN
        LET min_val       == (ParseFloat(Group(height_raw, feet_match, 1))
                                * rules.height.feet_to_cm) \div Scale
            max_val_found == Group(height_raw, feet_match, 2)
        IN  IF Truthy(max_val_found) /\ max_val
            THEN (ParseFloat(max_val_found) * rules.height.feet_to_cm) \div Scale
            ELSE min_val
      ELSE IF Contains(height_lower, <<"s","h","o","r","t">>) THEN rules.height.Short
      ELSE IF Contains(height_lower, <<"m","e","d","i","u","m">>) THEN rules.height.Medium
      ELSE IF Contains(height_lower, <<"t","a","l","l">>) THEN rules.height.Tall
      ELSE Null

_extract_height_range(rules, height_raw, max_val) ==
    IF ~Truthy(height_raw) THEN Null
    ELSE
      LET height_lower == ToLower(height_raw)
          cm_match   == SearchFrom(height_raw, TRUE, cm_pattern, 1)
          feet_match == SearchFrom(height_raw, TRUE, feet_pattern, 1)
      IN
      IF Contains(height_lower, <<"s","h","o","r","t">>) THEN rules.height.Short
      ELSE IF Contains(height_lower, <<"m","e","d","i","u","m">>) THEN rules.height.Medium
      ELSE IF Contains(height_lower, <<"t","a","l","l">>) THEN rules.height.Tall
      ELSE IF cm_match.ok THEN
        LET min_val       == ParseFloat(Group(height_raw, cm_match, 1))
            max_val_found == Group(height_raw, cm_match, 2)
        IN  IF Truthy(max_val_found) /\ max_val THEN ParseFloat(max_val_found)
            ELSE min_val
      ELSE IF feet_match.ok THEN
        LET min_val       == (ParseFloat(Group(height_raw, feet_match, 1))
                                * rules.height.feet_to_cm) \div Scale
            max_val_found == Group(height_raw, feet_match, 2)
        IN  IF Truthy(max_val_found) /\ max_val
            THEN (ParseFloat(max_val_found) * rules.height.feet_to_cm) \div Scale
            ELSE min_val
      ELSE Null

\* variant: the day pattern is searched before the week pattern
_extract_flowering_range_days_first(rules, flowering_raw, max_val) ==
    IF ~Truthy(flowering_raw) THEN Null
    ELSE
      LET week_match == SearchFrom(flowering_raw, TRUE, week_pattern, 1)
          day_match  == SearchFrom(flowering_raw, TRUE, day_pattern, 1)
      IN
      IF day_match.ok THEN
        LET min_days == ParseInt(Group(flowering_raw, day_match, 1))
            max_days == Group(flowering_raw, day_match, 2)
        IN  IF Truthy(max_days) /\ max_val THEN N(ParseInt(max_days))
            ELSE N(min_days)
      ELSE IF week_match.ok THEN
        LET min_weeks == ParseInt(Group(flowering_raw, week_match, 1))
            max_weeks == Group(flowering_raw, week_match, 2)
        IN  IF Truthy(max_weeks) /\ max_val
            THEN N(ParseInt(max_weeks) * rules.flowering.weeks_to_days)
            ELSE N(min_weeks * rules.flowering.weeks_to_days)
      ELSE Null

_extract_flowering_range(rules, flowering_raw, max_val) ==
    IF ~Truthy(flowering_raw) THEN Null
    ELSE
      LET week_match == SearchFrom(flowering_raw, TRUE, week_pattern, 1)
          day_match  == SearchFrom(flowering_raw, TRUE, day_pattern, 1)
      IN
      IF week_match.ok THEN
        LET min_weeks == ParseInt(Group(flowering_raw, week_match, 1))
            max_weeks == Group(flowering_raw, week_match, 2)
        IN  IF Truthy(max_weeks) /\ max_val
            THEN N(ParseInt(max_weeks) * rules.flowering.weeks_to_days)
            ELSE N(min_weeks * rules.flowering.weeks_to_days)
      ELSE IF day_match.ok THEN
        LET min_days == ParseInt(Group(flowering_raw, day_match, 1))
            max_days == Group(flowering_raw, day_match, 2)
        IN  IF Truthy(max_days) /\ max_val THEN N(ParseInt(max_days))
            ELSE N(min_days)
      ELSE Null

\* variant: the first number of the match is returned for max as well
_extract_percentage_range_first_only(percentage_raw, max_val) ==
    IF ~Truthy(percentage_raw) THEN Null
    ELSE
      LET percent_match == SearchFrom(percentage_raw, FALSE, percent_pattern, 1)
      IN  IF percent_match.ok
          THEN ParseFloat(Group(percentage_raw, percent_match, 1))
          ELSE Null

\* variant: the two numbers of a range are put in ascending order
_extract_percentage_range_ordered(percentage_raw, max_val) ==
    IF ~Truthy(percentage_raw) THEN Null
    ELSE
      LET percent_match == SearchFrom(percentage_raw, FALSE, percent_pattern, 1)
      IN
      IF percent_match.ok THEN
        LET min_val       == ParseFloat(Group(percentage_raw, percent_match, 1))
            max_val_found == Group(percentage_raw, percent_match, 2)
            other         == IF Truthy(max_val_found) THEN ParseFloat(max_val_found)
                             ELSE min_val
        IN  IF max_val THEN (IF other > min_val THEN other ELSE min_val)
            ELSE (IF other < min_val THEN other ELSE min_val)
      ELSE Null

_extract_percentage_range(percentage_raw, max_val) ==
    IF ~Truthy(percentage_raw) THEN Null
    ELSE
      LET percent_match == SearchFrom(percentage_raw, FALSE, percent_pattern, 1)
      IN
      IF percent_match.ok THEN
        LET min_val       == ParseFloat(Group(percentage_raw, percent_match, 1))
            max_val_found == Group(percentage_raw, percent_match, 2)
        IN  IF Truthy(max_val_found) /\ max_val THEN ParseFloat(max_val_found)
            ELSE min_val
      ELSE Null

\* variant: an even split assumed when the text names no share
_extract_genetics_default_half(genetics_raw, genetics_type) ==
    IF ~Truthy(genetics_raw) THEN N(50)
    ELSE
      LET match == SearchFrom(genetics_raw, TRUE, genetics_pattern(genetics_type), 1)
      IN  IF match.ok THEN N(ParseInt(Group(genetics_raw, match, 1))) ELSE N(50)

_extract_genetics(genetics_raw, genetics_type) ==
    IF ~Truthy(genetics_raw) THEN Null
    ELSE
      LET match == SearchFrom(genetics_raw, TRUE, genetics_pattern(genetics_type), 1)
      IN  IF match.ok THEN N(ParseInt(Group(genetics_raw, match, 1))) ELSE Null

\* bronze_data.get(key): keys are <<field, "raw">> and <<field, "source">>
Get(d, key) == IF key \in DOMAIN d THEN d[key] ELSE None

RECURSIVE MatchedLabelsLastFirst(_, _)
\* variant: a matched label goes before the labels matched earlier
MatchedLabelsLastFirst(mappings, text_lower) ==
    IF mappings = <<>> THEN <<>>
    ELSE MatchedLabelsLastFirst(Tail(mappings), text_lower)
            \o (IF Contains(text_lower, mappings[1][1]) THEN <<mappings[1][2]>> ELSE <<>>)

RECURSIVE MatchedLabels(_, _)
\* the labels of the keywords of mappings that occur in text_lower, in the
\* order of mappings
MatchedLabels(mappings, text_lower) ==
    IF mappings = <<>> THEN <<>>
    ELSE (IF Contains(text_lower, mappings[1][1]) THEN <<mappings[1][2]>> ELSE <<>>)
            \o MatchedLabels(Tail(mappings), text_lower)

_standardize_effects(effects_raw) ==
    LET
        \* effect_mappings, in insertion order: <<keyword, canonical label>>
        effect_mappings ==
            <<<<<<"r","e","l","a","x","i","n","g">>, <<"R","e","l","a","x","e","d">>>>,
              <<<<"e","u","p","h","o","r","i","c">>, <<"E","u","p","h","o","r","i","c">>>>,
              <<<<"u","p","l","i","f","t","i","n","g">>, <<"U","p","l","i","f","t","e","d">>>>,
              <<<<"e","n","e","r","g","e","t","i","c">>, <<"E","n","e","r","g","e","t","i","c">>>>,
              <<<<"c","r","e","a","t","i","v","e">>, <<"C","r","e","a","t","i","v","e">>>>,
              <<<<"f","o","c","u","s","e","d">>, <<"F","o","c","u","s","e","d">>>>,
              <<<<"h","a","p","p","y">>, <<"H","a","p","p","y">>>>,
              <<<<"s","l","e","e","p","y">>, <<"S","l","e","e","p","y">>>>>>
    IN
    IF ~Truthy(effects_raw) THEN None
    ELSE LET standardized_effects == MatchedLabels(effect_mappings, ToLower(effects_raw))
         IN  IF standardized_effects # <<>>
             THEN JoinWith(standardized_effects, <<",", " ">>) ELSE None

_standardize_flavors(flavors_raw) ==
    LET
        \* flavor_mappings, in insertion order
        flavor_mappings ==
            <<<<<<"c","i","t","r","u","s">>, <<"C","i","t","r","u","s">>>>,
              <<<<"l","e","m","o","n">>, <<"L","e","m","o","n">>>>,
              <<<<"o","r","a","n","g","e">>, <<"O","r","a","n","g","e">>>>,
              <<<<"b","e","r","r","y">>, <<"B","e","r","r","y">>>>,
              <<<<"s","w","e","e","t">>, <<"S","w","e","e","t">>>>,
              <<<<"e","a","r","t","h","y">>, <<"E","a","r","t","h","y">>>>,
              <<<<"p","i","n","e">>, <<"P","i","n","e">>>>,
              <<<<"d","i","e","s","e","l">>, <<"D","i","e","s","e","l">>>>,
              <<<<"s","k","u","n","k">>, <<"S","k","u","n","k">>>>,
              <<<<"f","r","u","i","t","y">>, <<"F","r","u","i","t","y">>>>>>
    IN
    IF ~Truthy(flavors_raw) THEN None
    ELSE LET standardized_flavors == MatchedLabels(flavor_mappings, ToLower(flavors_raw))
         IN  IF standardized_flavors # <<>>
             THEN JoinWith(standardized_flavors, <<",", " ">>) ELSE None

RECURSIVE SumWeights(_, _)
\* sum of the weights of the entries of weights whose field is in counted
SumWeights(weights, counted) ==
    IF weights = <<>> THEN 0
    ELSE (IF weights[1][1] \in counted THEN weights[1][2] ELSE 0)
            + SumWeights(Tail(weights), counted)

\* variant: the thresholds taken as strict
MoreThan(actual_score, total_possible, t) == actual_score * 100 > t * total_possible

\* percentage >= t with percentage = (actual_score / total_possible) * 100;
\* the division is exact in floating point at the only attainable boundary
\* (7 / 14), so the comparison is the integer one
AtLeast(actual_score, total_possible, t) == actual_score * 100 >= t * total_possible

_calculate_confidence(bronze_data) ==
    LET
        \* one field counts: bronze_data.get(field) and len(str(...).strip()) > 2
        FieldCounts(data, field) ==
            /\ Truthy(Get(data, <<field, "raw">>))
            /\ Len(Strip(data[<<field, "raw">>])) > 2
    IN
    LET
        \* field_weights, in insertion order: <<field of the <field>_raw key, weight>>
        field_weights ==
            <<<<"height", 2>>, <<"flowering_time", 3>>, <<"thc_content", 3>>,
              <<"cbd_content", 2>>, <<"genetics", 2>>, <<"effects", 1>>, <<"flavors", 1>>>>
    IN
    LET fields         == {field_weights[i][1] : i \in 1..Len(field_weights)}
        total_possible == SumWeights(field_weights, fields)
        actual_score   == SumWeights(field_weights,
                                     {f \in fields : FieldCounts(bronze_data, f)})
    IN  IF AtLeast(actual_score, total_possible, 90) THEN 5
        ELSE IF AtLeast(actual_score, total_possible, 70) THEN 4
        ELSE IF AtLeast(actual_score, total_possible, 50) THEN 3
        ELSE IF AtLeast(actual_score, total_possible, 30) THEN 2
        ELSE 1

\* gold_data of process_bronze_to_gold; rules is self.conversion_rules
GoldData(rules, bronze_data) ==
    [height_cm_min      |-> _extract_height_range(rules, Get(bronze_data, <<"height", "raw">>), FALSE),
     height_cm_max      |-> _extract_height_range(rules, Get(bronze_data, <<"height", "raw">>), TRUE),
     flowering_days_min |-> _extract_flowering_range(rules, Get(bronze_data, <<"flowering_time", "raw">>), FALSE),
     flowering_days_max |-> _extract_flowering_range(rules, Get(bronze_data, <<"flowering_time", "raw">>), TRUE),
     thc_percentage_min |-> _extract_percentage_range(Get(bronze_data, <<"thc_content", "raw">>), FALSE),
     thc_percentage_max |-> _extract_percentage_range(Get(bronze_data, <<"thc_content", "raw">>), TRUE),
     cbd_percentage_min |-> _extract_percentage_range(Get(bronze_data, <<"cbd_content", "raw">>), FALSE),
     cbd_percentage_max |-> _extract_percentage_range(Get(bronze_data, <<"cbd_content", "raw">>), TRUE),
     sativa_percentage  |-> _extract_genetics(Get(bronze_data, <<"genetics", "raw">>), <<"s","a","t","i","v","a">>),
     indica_percentage  |-> _extract_genetics(Get(bronze_data, <<"genetics", "raw">>), <<"i","n","d","i","c","a">>),
     effects_standardized |-> _standardize_effects(Get(bronze_data, <<"effects", "raw">>)),
     flavors_standardized |-> _standardize_flavors(Get(bronze_data, <<"flavors", "raw">>)),
     confidence_score   |-> _calculate_confidence(bronze_data)]

\* variant: the raw texts of the record passed are stripped in place
process_bronze_to_gold_in_place(rules, bronze_data) ==
    [bronze |-> [key \in DOMAIN bronze_data |-> Strip(bronze_data[key])],
     gold   |-> GoldData(rules, [key \in DOMAIN bronze_data |-> Strip(bronze_data[key])])]

\* the mapping returned by process_bronze_to_gold
process_bronze_to_gold(rules, bronze_data) ==
    [bronze |-> bronze_data, gold |-> GoldData(rules, bronze_data)]

(***************************************************************************)
(* CannabisDataExtractor (src/src/ingestion/data_extractor.py)             *)
(*                                                                         *)
(* A parsed document is [title, meta, body]: the text of the title tag     *)
(* (None without one), the content attribute of the description meta tag   *)
(* (None without one) and the body elements in document order.  A body     *)
(* element is one of                                                       *)
(*   [kind |-> "elem", tag, class, text, alt, stars]  a tag with its class *)
(*        attribute, its text node, its alt attribute and the number of    *)
(*        its text-less descendants whose class matches "star";            *)
(*   [kind |-> "table", rows]  rows of cell texts;                         *)
(*   [kind |-> "script", json]  an application/ld+json block, json being   *)
(*        what script.string and json.loads give for it.                   *)
(***************************************************************************)
EmptyDict == [key \in {} |-> <<>>]

\* variant: entries already present are kept
UpdateKeepFirst(d, other) == d @@ other

\* variant: a raw text is written over, the source of an entry already
\* present is kept
UpdateRawOnly(d, other) ==
    [key \in {k \in DOMAIN other : k[2] = "raw" \/ k \notin DOMAIN d} |-> other[key]] @@ d

\* dict.update: d with the entries of other written over it
Update(d, other) == other @@ d

\* d[f"{field}_raw"] = raw; d[f"{field}_source"] = source
Put(d, field, raw, source) ==
    (<<field, "raw">> :> raw) @@ (<<field, "source">> :> source) @@ d

\* str(n) for a small natural number
ShowInt(n) ==
    LET digit(d) == <<"0","1","2","3","4","5","6","7","8","9">>[d + 1]
    IN  IF n < 10 THEN <<digit(n)>> ELSE <<digit(n \div 10), digit(n % 10)>>

RECURSIVE SplitRuns(_, _)
\* the non-empty pieces of re.split on runs of the characters of seps
SplitRuns(s, seps) ==
    IF s = <<>> THEN <<>>
    ELSE IF s[1] \in seps THEN SplitRuns(Tail(s), seps)
    ELSE LET e == RunEnd(s, [neg |-> TRUE, set |-> seps], 1)
         IN  <<SubSeq(s, 1, e - 1)>> \o SplitRuns(SubSeq(s, e, Len(s)), seps)

\* any(keyword in text for keyword in keywords)
ContainsAny(text, keywords) == \E i \in 1..Len(keywords) : Contains(text, keywords[i])

spec_keywords ==
    <<<<"t","h","c">>,
      <<"c","b","d">>,
      <<"f","l","o","w","e","r","i","n","g">>,
      <<"h","e","i","g","h","t">>,
      <<"y","i","e","l","d">>,
      <<"g","e","n","e","t","i","c","s">>,
      <<"s","a","t","i","v","a">>,
      <<"i","n","d","i","c","a">>>>

\* field_mappings, in insertion order: <<field name, keywords>>
field_mappings ==
    <<<<"thc", <<<<"t","h","c">>, <<"t","h","c"," ","c","o","n","t","e","n","t">>, <<"t","h","c"," ","l","e","v","e","l">>, <<"t","h","c"," ","%">>, <<"t","h","c"," ","p","e","r","c","e","n","t","a","g","e">>>>>>,
      <<"cbd", <<<<"c","b","d">>, <<"c","b","d"," ","c","o","n","t","e","n","t">>, <<"c","b","d"," ","l","e","v","e","l">>, <<"c","b","d"," ","%">>, <<"c","b","d"," ","p","e","r","c","e","n","t","a","g","e">>>>>>,
      <<"flowering_time", <<<<"f","l","o","w","e","r","i","n","g"," ","t","i","m","e">>, <<"f","l","o","w","e","r","i","n","g"," ","p","e","r","i","o","d">>, <<"f","l","o","w","e","r"," ","t","i","m","e">>, <<"b","l","o","o","m"," ","t","i","m","e">>, <<"f","l","o","w","e","r","i","n","g">>>>>>,
      <<"height", <<<<"h","e","i","g","h","t">>, <<"p","l","a","n","t"," ","h","e","i","g","h","t">>, <<"s","i","z","e">>, <<"g","r","o","w","s"," ","t","o">>, <<"t","a","l","l">>>>>>,
      <<"yield", <<<<"y","i","e","l","d">>, <<"h","a","r","v","e","s","t">>, <<"p","r","o","d","u","c","t","i","o","n">>, <<"o","u","t","p","u","t">>>>>>,
      <<"genetics", <<<<"g","e","n","e","t","i","c","s">>, <<"g","e","n","e","t","i","c"," ","b","a","c","k","g","r","o","u","n","d">>, <<"l","i","n","e","a","g","e">>, <<"b","r","e","e","d","i","n","g">>, <<"c","r","o","s","s">>>>>>,
      <<"effects", <<<<"e","f","f","e","c","t","s">>, <<"e","f","f","e","c","t">>, <<"h","i","g","h">>, <<"b","u","z","z">>>>>>,
      <<"flavors", <<<<"f","l","a","v","o","r">>, <<"f","l","a","v","o","u","r">>, <<"t","a","s","t","e">>, <<"a","r","o","m","a">>, <<"s","m","e","l","l">>>>>>>>

_is_specification_table(table) ==
    LET
        \* the text of all cells of a table, as table.get_text() gives it
        TableText(t) ==
            LET RowText(row) == JoinWith(row, <<>>)
            IN  JoinWith([i \in 1..Len(t.rows) |-> RowText(t.rows[i])], <<>>)
    IN
    LET table_text    == ToLower(TableText(table))
        keyword_count == Cardinality({i \in 1..Len(spec_keywords) :
                                         Contains(table_text, spec_keywords[i])})
    IN  keyword_count >= 2

\* the field of the first entry of field_mappings one of whose keywords
\* occurs in the label; "" when there is none (Python None)
_map_table_field(key_text) ==
    LET key_lower == Strip(ToLower(key_text))
        hits == {i \in 1..Len(field_mappings) :
                    ContainsAny(key_lower, field_mappings[i][2])}
    IN  IF hits = {} THEN "" ELSE field_mappings[SetMin(hits)][1]

\* variant: tables numbered from 0
TableSourceZeroBased(table_idx) == <<"T","a","b","l","e"," ">> \o ShowInt(table_idx)

\* "Table N"
TableSource(table_idx) == <<"T","a","b","l","e"," ">> \o ShowInt(table_idx + 1)

RECURSIVE TableRows(_, _, _)
\* the loop over the rows of one specification table
TableRows(table_data, rows, table_idx) ==
    IF rows = <<>> THEN table_data
    ELSE
      LET cells      == rows[1]
          key_cell   == Strip(cells[1])
          value_cell == Strip(cells[2])
          field_name == _map_table_field(key_cell)
          next ==
            IF Len(cells) >= 2 /\ key_cell # <<>> /\ value_cell # <<>> /\ field_name # ""
            THEN Put(table_data, field_name, value_cell, TableSource(table_idx))
            ELSE table_data
      IN  TableRows(next, Tail(rows), table_idx)

\* soup.find_all('table')
Tables(doc) == SelectSeq(doc.body, LAMBDA e : e.kind = "table")

RECURSIVE TableLoop(_, _, _)
\* the loop over enumerate(tables), from index table_idx (0-based)
TableLoop(table_data, tables, table_idx) ==
    IF table_idx >= Len(tables) THEN table_data
    ELSE LET table == tables[table_idx + 1]
             next  == IF _is_specification_table(table)
                      THEN TableRows(table_data, table.rows, table_idx)
                      ELSE table_data
         IN  TableLoop(next, tables, table_idx + 1)

_extract_from_tables(doc) == TableLoop(EmptyDict, Tables(doc), 0)


(***************************************************************************)
(* Pattern matching                                                        *)
(***************************************************************************)
\* (?:\.|\n|$)
LineEnd == Alt(<<Lit(<<".">>), Lit(<<"\n">>), Eol>>)

\* ([^\n\.]+?)(?:\.|\n|$)
CaptureToEnd == Cat(<<Grp(1, NotPlusLazy({"\n", "."})), LineEnd>>)

\* patterns of _extract_with_patterns: <<field name, expressions in listed
\* order>>
patterns ==
    <<
      <<"thc_content",
       <<
         \* r'THC:?\s*([^\n\.]+?)(?:\.|\n|$)'
         Cat(<<Lit(<<"T","H","C">>), Opt(Lit(<<":">>)), Star(Whitespace), CaptureToEnd>>),
         \* r'(?:THC|thc)\s*(?:content|level|percentage)?:?\s*([^\n\.]+?)(?:\.|\n|$)'
         Cat(<<Alt(<<Lit(<<"T","H","C">>), Lit(<<"t","h","c">>)>>), Star(Whitespace), Opt(Alt(<<Lit(<<"c","o","n","t","e","n","t">>), Lit(<<"l","e","v","e","l">>), Lit(<<"p","e","r","c","e","n","t","a","g","e">>)>>)), Opt(Lit(<<":">>)), Star(Whitespace), CaptureToEnd>>),
         \* r'([0-9]+(?:\.[0-9]+)?(?:\s*-\s*[0-9]+(?:\.[0-9]+)?)?\s*%\s*THC)'
         Grp(1, Cat(<<Decimal, Opt(Cat(<<Star(Whitespace), Lit(<<"-">>), Star(Whitespace), Decimal>>)), Star(Whitespace), Lit(<<"%">>), Star(Whitespace), Lit(<<"T","H","C">>)>>))>>>>,
      <<"cbd_content",
       <<
         \* r'CBD:?\s*([^\n\.]+?)(?:\.|\n|$)'
         Cat(<<Lit(<<"C","B","D">>), Opt(Lit(<<":">>)), Star(Whitespace), CaptureToEnd>>),
         \* r'(?:CBD|cbd)\s*(?:content|level|percentage)?:?\s*([^\n\.]+?)(?:\.|\n|$)'
         Cat(<<Alt(<<Lit(<<"C","B","D">>), Lit(<<"c","b","d">>)>>), Star(Whitespace), Opt(Alt(<<Lit(<<"c","o","n","t","e","n","t">>), Lit(<<"l","e","v","e","l">>), Lit(<<"p","e","r","c","e","n","t","a","g","e">>)>>)), Opt(Lit(<<":">>)), Star(Whitespace), CaptureToEnd>>),
         \* r'([0-9]+(?:\.[0-9]+)?(?:\s*-\s*[0-9]+(?:\.[0-9]+)?)?\s*%\s*CBD)'
         Grp(1, Cat(<<Decimal, Opt(Cat(<<Star(Whitespace), Lit(<<"-">>), Star(Whitespace), Decimal>>)), Star(Whitespace), Lit(<<"%">>), Star(Whitespace), Lit(<<"C","B","D">>)>>))>>>>,
      <<"flowering_time",
       <<
         \* r'(?:flowering|flower)\s+(?:time|period):?\s*([^\n\.]+?)(?:\.|\n|$)'
         Cat(<<Alt(<<Lit(<<"f","l","o","w","e","r","i","n","g">>), Lit(<<"f","l","o","w","e","r">>)>>), Plus(Whitespace), Alt(<<Lit(<<"t","i","m","e">>), Lit(<<"p","e","r","i","o","d">>)>>), Opt(Lit(<<":">>)), Star(Whitespace), CaptureToEnd>>),
         \* r'(?:blooms?|flowers?)\s+(?:in|for|after)\s*([^\n\.]+?)(?:\.|\n|$)'
         Cat(<<Alt(<<Cat(<<Lit(<<"b","l","o","o","m">>), Opt(Lit(<<"s">>))>>), Cat(<<Lit(<<"f","l","o","w","e","r">>), Opt(Lit(<<"s">>))>>)>>), Plus(Whitespace), Alt(<<Lit(<<"i","n">>), Lit(<<"f","o","r">>), Lit(<<"a","f","t","e","r">>)>>), Star(Whitespace), CaptureToEnd>>),
         \* r'([0-9]+(?:\s*-\s*[0-9]+)?\s*(?:weeks?|days?|wks?)\s*(?:flowering|flower|bloom))'
         Grp(1, Cat(<<Plus(Digits), Opt(Cat(<<Star(Whitespace), Lit(<<"-">>), Star(Whitespace), Plus(Digits)>>)), Star(Whitespace), Alt(<<Cat(<<Lit(<<"w","e","e","k">>), Opt(Lit(<<"s">>))>>), Cat(<<Lit(<<"d","a","y">>), Opt(Lit(<<"s">>))>>), Cat(<<Lit(<<"w","k">>), Opt(Lit(<<"s">>))>>)>>), Star(Whitespace), Alt(<<Lit(<<"f","l","o","w","e","r","i","n","g">>), Lit(<<"f","l","o","w","e","r">>), Lit(<<"b","l","o","o","m">>)>>)>>))>>>>,
      <<"height",
       <<
         \* r'(?:height|tall|grows?):?\s*([^\n\.]+?)(?:\.|\n|$)'
         Cat(<<Alt(<<Lit(<<"h","e","i","g","h","t">>), Lit(<<"t","a","l","l">>), Cat(<<Lit(<<"g","r","o","w">>), Opt(Lit(<<"s">>))>>)>>), Opt(Lit(<<":">>)), Star(Whitespace), CaptureToEnd>>),
         \* r'(?:reaches|up to|grows to)\s*([^\n\.]+?)(?:\.|\n|$)'
         Cat(<<Alt(<<Lit(<<"r","e","a","c","h","e","s">>), Lit(<<"u","p"," ","t","o">>), Lit(<<"g","r","o","w","s"," ","t","o">>)>>), Star(Whitespace), CaptureToEnd>>),
         \* r'([0-9]+(?:\s*-\s*[0-9]+)?\s*(?:cm|feet?|ft|inches?|in)\s*(?:tall|high|height))'
         Grp(1, Cat(<<Plus(Digits), Opt(Cat(<<Star(Whitespace), Lit(<<"-">>), Star(Whitespace), Plus(Digits)>>)), Star(Whitespace), Alt(<<Lit(<<"c","m">>), Cat(<<Lit(<<"f","e","e">>), Opt(Lit(<<"t">>))>>), Lit(<<"f","t">>), Cat(<<Lit(<<"i","n","c","h">>), Opt(Lit(<<"e","s">>))>>), Lit(<<"i","n">>)>>), Star(Whitespace), Alt(<<Lit(<<"t","a","l","l">>), Lit(<<"h","i","g","h">>), Lit(<<"h","e","i","g","h","t">>)>>)>>))>>>>,
      <<"yield",
       <<
         \* r'(?:yield|harvest|produces?):?\s*([^\n\.]+?)(?:\.|\n|$)'
         Cat(<<Alt(<<Lit(<<"y","i","e","l","d">>), Lit(<<"h","a","r","v","e","s","t">>), Cat(<<Lit(<<"p","r","o","d","u","c","e">>), Opt(Lit(<<"s">>))>>)>>), Opt(Lit(<<":">>)), Star(Whitespace), CaptureToEnd>>),
         \* r'(?:up to|around|approximately)\s*([^\n\.]+?)(?:\.|\n|$)'
         Cat(<<Alt(<<Lit(<<"u","p"," ","t","o">>), Lit(<<"a","r","o","u","n","d">>), Lit(<<"a","p","p","r","o","x","i","m","a","t","e","l","y">>)>>), Star(Whitespace), CaptureToEnd>>),
         \* r'([0-9]+(?:\s*-\s*[0-9]+)?\s*(?:g|grams?|oz|ounces?)\s*(?:per|/|m2|plant))'
         Grp(1, Cat(<<Plus(Digits), Opt(Cat(<<Star(Whitespace), Lit(<<"-">>), Star(Whitespace), Plus(Digits)>>)), Star(Whitespace), Alt(<<Lit(<<"g">>), Cat(<<Lit(<<"g","r","a","m">>), Opt(Lit(<<"s">>))>>), Lit(<<"o","z">>), Cat(<<Lit(<<"o","u","n","c","e">>), Opt(Lit(<<"s">>))>>)>>), Star(Whitespace), Alt(<<Lit(<<"p","e","r">>), Lit(<<"/">>), Lit(<<"m","2">>), Lit(<<"p","l","a","n","t">>)>>)>>))>>>>,
      <<"genetics",
       <<
         \* r'(?:genetics|lineage|cross|bred from):?\s*([^\n\.]+?)(?:\.|\n|$)'
         Cat(<<Alt(<<Lit(<<"g","e","n","e","t","i","c","s">>), Lit(<<"l","i","n","e","a","g","e">>), Lit(<<"c","r","o","s","s">>), Lit(<<"b","r","e","d"," ","f","r","o","m">>)>>), Opt(Lit(<<":">>)), Star(Whitespace), CaptureToEnd>>),
         \* r'([0-9]+\s*%\s*(?:sativa|indica)(?:\s*[^\n\.]*?)?)(?:\.|\n|$)'
         Cat(<<Grp(1, Cat(<<Plus(Digits), Star(Whitespace), Lit(<<"%">>), Star(Whitespace), Alt(<<Lit(<<"s","a","t","i","v","a">>), Lit(<<"i","n","d","i","c","a">>)>>), Opt(Cat(<<Star(Whitespace), NotStarLazy({"\n", "."})>>))>>)), LineEnd>>),
         \* r'(?:hybrid|cross)\s+(?:of|between)\s*([^\n\.]+?)(?:\.|\n|$)'
         Cat(<<Alt(<<Lit(<<"h","y","b","r","i","d">>), Lit(<<"c","r","o","s","s">>)>>), Plus(Whitespace), Alt(<<Lit(<<"o","f">>), Lit(<<"b","e","t","w","e","e","n">>)>>), Star(Whitespace), CaptureToEnd>>)>>>>>>

RECURSIVE FirstUsable(_, _, _)
\* the loop over re.finditer(pattern, page_text, re.IGNORECASE | re.MULTILINE):
\* the first match, from position from on, whose group(1).strip() is not
\* empty; NoMatch when the matches run out
FirstUsable(page_text, pattern, from) ==
    LET match == SearchFrom(page_text, TRUE, pattern, from)
    IN  IF ~match.ok THEN NoMatch
        ELSE IF Strip(Group(page_text, match, 1)) # <<>> THEN match
        ELSE FirstUsable(page_text, pattern,
                         IF match.end > match.start THEN match.end ELSE match.end + 1)

RECURSIVE PatternLoop(_, _, _, _)
\* the loop "for pattern in field_patterns" for one field: every expression
\* is tried, in order, and each usable match is written over the earlier one
PatternLoop(pattern_data, page_text, field_name, field_patterns) ==
    IF field_patterns = <<>> THEN pattern_data
    ELSE LET match == FirstUsable(page_text, field_patterns[1], 1)
             next  == IF match.ok
                      THEN Put(pattern_data, field_name,
                               Strip(Group(page_text, match, 1)),
                               <<"P","a","t","t","e","r","n"," ","m","a","t","c","h","i","n","g">>)
                      ELSE pattern_data
         IN  PatternLoop(next, page_text, field_name, Tail(field_patterns))

RECURSIVE FieldLoop(_, _, _)
\* the loop "for field_name, field_patterns in patterns.items()"
FieldLoop(pattern_data, page_text, fields) ==
    IF fields = <<>> THEN pattern_data
    ELSE FieldLoop(PatternLoop(pattern_data, page_text, fields[1][1], fields[1][2]),
                   page_text, Tail(fields))

\* the stripped, non-empty text nodes of one body element, in document order
\* (the strings of script elements are not part of get_text)
ElementStrings(e) ==
    LET cellsOf(row) == SelectSeq([i \in 1..Len(row) |-> Strip(row[i])], LAMBDA t : t # <<>>)
        RECURSIVE rowsOf(_)
        rowsOf(rows) == IF rows = <<>> THEN <<>> ELSE cellsOf(rows[1]) \o rowsOf(Tail(rows))
    IN  CASE e.kind = "elem"   -> IF Strip(e.text) # <<>> THEN <<Strip(e.text)>> ELSE <<>>
          [] e.kind = "table"  -> rowsOf(e.rows)
          [] e.kind = "script" -> <<>>

RECURSIVE BodyStrings(_)
BodyStrings(body) ==
    IF body = <<>> THEN <<>> ELSE ElementStrings(body[1]) \o BodyStrings(Tail(body))

\* soup.get_text(separator=' ', strip=True)
PageText(doc) ==
    JoinWith((IF doc.title # None /\ Strip(doc.title) # <<>> THEN <<Strip(doc.title)>> ELSE <<>>)
                \o BodyStrings(doc.body), <<" ">>)

_extract_with_patterns(doc) == FieldLoop(EmptyDict, PageText(doc), patterns)

(***************************************************************************)
(* Prose mining                                                            *)
(***************************************************************************)
\* the six class selectors of description_selectors, then the two
\* [class*="..."] selectors
description_selectors ==
    [class |->
    <<<<"p","r","o","d","u","c","t","-","d","e","s","c","r","i","p","t","i","o","n">>,
      <<"s","t","r","a","i","n","-","d","e","s","c","r","i","p","t","i","o","n">>,
      <<"d","e","s","c","r","i","p","t","i","o","n">>,
      <<"p","r","o","d","u","c","t","-","d","e","t","a","i","l","s">>,
      <<"s","t","r","a","i","n","-","i","n","f","o">>,
      <<"p","r","o","d","u","c","t","-","c","o","n","t","e","n","t">>>>,
     substring |-> <<<<"d","e","s","c","r","i","p","t","i","o","n">>, <<"d","e","t","a","i","l","s">>>>]

\* the class names of an element
ClassNames(e) == SplitRuns(e.class, Whitespace)

\* the texts collected for one selector; Selects(e) says whether the
\* selector matches the element
SelectTexts(body, Selects(_)) ==
    LET chosen == SelectSeq(body, LAMBDA e :
                     /\ e.kind = "elem"
                     /\ Selects(e)
                     /\ Len(Strip(e.text)) > 20)
    IN  [i \in 1..Len(chosen) |-> Strip(chosen[i].text)]

RECURSIVE ClassSelectorLoop(_, _)
ClassSelectorLoop(body, selectors) ==
    IF selectors = <<>> THEN <<>>
    ELSE SelectTexts(body, LAMBDA e :
                \E i \in 1..Len(ClassNames(e)) : ClassNames(e)[i] = selectors[1])
            \o ClassSelectorLoop(body, Tail(selectors))

RECURSIVE SubstringSelectorLoop(_, _)
SubstringSelectorLoop(body, selectors) ==
    IF selectors = <<>> THEN <<>>
    ELSE SelectTexts(body, LAMBDA e : Contains(e.class, selectors[1]))
            \o SubstringSelectorLoop(body, Tail(selectors))

\* the keyword lists of _extract_contextual_mentions
context_keywords ==
    [effects |->
    <<<<"r","e","l","a","x","i","n","g">>, <<"e","u","p","h","o","r","i","c">>, <<"u","p","l","i","f","t","i","n","g">>, <<"e","n","e","r","g","e","t","i","c">>,
      <<"c","r","e","a","t","i","v","e">>, <<"f","o","c","u","s","e","d">>, <<"h","a","p","p","y">>, <<"s","l","e","e","p","y">>>>,
     flavors |->
    <<<<"c","i","t","r","u","s">>, <<"l","e","m","o","n">>, <<"b","e","r","r","y">>, <<"s","w","e","e","t">>,
      <<"e","a","r","t","h","y">>, <<"p","i","n","e">>, <<"d","i","e","s","e","l">>, <<"f","r","u","i","t","y">>>>,
     growing |->
    <<<<"i","n","d","o","o","r">>, <<"o","u","t","d","o","o","r">>, <<"h","y","d","r","o">>,
      <<"s","o","i","l">>, <<"c","l","i","m","a","t","e">>, <<"t","e","m","p","e","r","a","t","u","r","e">>>>]

\* one category of the sentence loop: the first sentence holding a keyword
Mention(contextual_data, sentence, field, keywords) ==
    LET
        DescriptionContext == <<"D","e","s","c","r","i","p","t","i","o","n"," ","c","o","n","t","e","x","t">>
    IN
    IF /\ ContainsAny(ToLower(sentence), keywords)
       /\ <<field, "raw">> \notin DOMAIN contextual_data
    THEN Put(contextual_data, field, sentence, DescriptionContext)
    ELSE contextual_data

RECURSIVE SentenceLoop(_, _)
SentenceLoop(contextual_data, sentences) ==
    IF sentences = <<>> THEN contextual_data
    ELSE LET sentence == Strip(sentences[1])
             d1 == Mention(contextual_data, sentence, "effects_context", context_keywords.effects)
             d2 == Mention(d1, sentence, "flavors_context", context_keywords.flavors)
             d3 == Mention(d2, sentence, "growing_context", context_keywords.growing)
         IN  SentenceLoop(IF sentence = <<>> THEN contextual_data ELSE d3,
                          Tail(sentences))

_extract_contextual_mentions(text) ==
    SentenceLoop(EmptyDict, SplitRuns(text, {".", "!", "?"}))

_extract_from_descriptions(doc) ==
    LET all_descriptions == ClassSelectorLoop(doc.body, description_selectors.class)
                               \o SubstringSelectorLoop(doc.body, description_selectors.substring)
        full_description == JoinWith(all_descriptions, <<" ">>)
    IN  IF all_descriptions # <<>>
        THEN Update(Put(EmptyDict, "description", full_description,
                        <<"P","r","o","d","u","c","t"," ","d","e","s","c","r","i","p","t","i","o","n","s">>),
                    _extract_contextual_mentions(full_description))
        ELSE EmptyDict


(***************************************************************************)
(* Visual indicators                                                       *)
(***************************************************************************)

RECURSIVE RatingLoop(_, _)
\* the loop over rating_elements: no break, the last description stays
RatingLoop(image_data, rating_elements) ==
    IF rating_elements = <<>> THEN image_data
    ELSE
      LET element  == rating_elements[1]
          alt_text == element.alt
          next ==
            IF element.tag = "img"
            THEN IF \/ Contains(ToLower(alt_text), <<"s","t","a","r">>)
                    \/ Contains(ToLower(alt_text), <<"r","a","t","i","n","g">>)
                 THEN Put(image_data, "rating_visual",
                          <<"[","I","m","a","g","e",":"," ">> \o alt_text \o <<"]">>,
                          <<"I","m","a","g","e"," ","a","l","t"," ","t","e","x","t">>)
                 ELSE image_data
            ELSE IF element.stars > 0
                 THEN Put(image_data, "rating_visual",
                          <<"[","V","i","s","u","a","l",":"," ">> \o ShowInt(element.stars)
                             \o <<" ","s","t","a","r"," ","e","l","e","m","e","n","t","s","]">>,
                          <<"V","i","s","u","a","l"," ","e","l","e","m","e","n","t","s">>)
                 ELSE image_data
      IN  RatingLoop(next, Tail(rating_elements))

_extract_from_images(doc) ==
    LET
        \* class_=re.compile(r'(difficulty|easy|hard|beginner)', re.I)
        DifficultyClass(e) ==
            ContainsAny(ToLower(e.class),
                        <<<<"d","i","f","f","i","c","u","l","t","y">>, <<"e","a","s","y">>,
                          <<"h","a","r","d">>, <<"b","e","g","i","n","n","e","r">>>>)
    IN
    LET
        \* class_=re.compile(r'(star|rating|score)', re.I)
        RatingClass(e) ==
            ContainsAny(ToLower(e.class), <<<<"s","t","a","r">>, <<"r","a","t","i","n","g">>, <<"s","c","o","r","e">>>>)
    IN
    LET rating_elements ==
            SelectSeq(doc.body, LAMBDA e :
                /\ e.kind = "elem"
                /\ e.tag \in {"img", "span", "div"}
                /\ RatingClass(e))
        difficulty_elements ==
            SelectSeq(doc.body, LAMBDA e :
                e.kind = "elem" /\ DifficultyClass(e) /\ Strip(e.text) # <<>>)
        image_data == RatingLoop(EmptyDict, rating_elements)
    IN  IF difficulty_elements # <<>>
        THEN Put(image_data, "difficulty", Strip(difficulty_elements[1].text),
                 <<"V","i","s","u","a","l"," ","i","n","d","i","c","a","t","o","r">>)
        ELSE image_data

(***************************************************************************)
(* Metadata                                                                *)
(*                                                                         *)
(* The json field of a script element is                                   *)
(*   [k |-> "nostring"]   script.string is None (an empty block, or one    *)
(*                        with several children): json.loads(None) raises  *)
(*                        TypeError, which the handler does not catch;     *)
(*   [k |-> "invalid"]    json.loads raises JSONDecodeError;               *)
(*   [k |-> "other"]      valid JSON that is not an object;                *)
(*   [k |-> "object", members]  an object, members mapping its keys to     *)
(*                        their values.                                    *)
(***************************************************************************)
JsonLdSource == <<"J","S","O","N","-","L","D"," ","s","t","r","u","c","t","u","r","e","d"," ","d","a","t","a">>

RECURSIVE JsonLdLoop(_, _)
\* the loop over json_ld_scripts; result [raised, data]
JsonLdLoop(meta_data, json_ld_scripts) ==
    IF json_ld_scripts = <<>> THEN [raised |-> FALSE, data |-> meta_data]
    ELSE
      LET structured_data == json_ld_scripts[1].json
          d1 == IF "name" \in DOMAIN structured_data.members
                THEN Put(meta_data, "structured_name",
                         structured_data.members["name"], JsonLdSource)
                ELSE meta_data
          d2 == IF "description" \in DOMAIN structured_data.members
                THEN Put(d1, "structured_description",
                         structured_data.members["description"], JsonLdSource)
                ELSE d1
      IN  CASE structured_data.k = "nostring" -> [raised |-> TRUE, data |-> meta_data]
            [] structured_data.k = "invalid"  -> JsonLdLoop(meta_data, Tail(json_ld_scripts))
            [] structured_data.k = "other"    -> JsonLdLoop(meta_data, Tail(json_ld_scripts))
            [] structured_data.k = "object"   -> JsonLdLoop(d2, Tail(json_ld_scripts))

_extract_metadata(doc) ==
    LET d1 == IF Truthy(doc.meta)
              THEN Put(EmptyDict, "meta_description", doc.meta, <<"H","T","M","L"," ","m","e","t","a"," ","t","a","g">>)
              ELSE EmptyDict
        d2 == IF doc.title # None /\ Strip(doc.title) # <<>>
              THEN Put(d1, "page_title", Strip(doc.title), <<"H","T","M","L"," ","t","i","t","l","e"," ","t","a","g">>)
              ELSE d1
    IN  JsonLdLoop(d2, SelectSeq(doc.body, LAMBDA e : e.kind = "script"))

(***************************************************************************)
(* Documents                                                               *)
(***************************************************************************)
Elem(tag, class, text) ==
    [kind |-> "elem", tag |-> tag, class |-> class, text |-> text, alt |-> <<>>, stars |-> 0]
Img(class, alt) ==
    [kind |-> "elem", tag |-> "img", class |-> class, text |-> <<>>, alt |-> alt, stars |-> 0]
Table(rows) == [kind |-> "table", rows |-> rows]
Script(json) == [kind |-> "script", json |-> json]
JsonObject(members) == [k |-> "object", members |-> members]

\* sample_html of main(): title, description meta tag, description paragraph, specification table
SampleTitle ==
    <<"B","l","u","e"," ","D","r","e","a","m"," ","C","a","n","n","a","b","i","s"," ","S","e",
      "e","d","s"," ","-"," ","P","r","e","m","i","u","m"," ","G","e","n","e","t","i","c","s">>

SampleMeta ==
    <<"B","l","u","e"," ","D","r","e","a","m"," ","i","s"," ","a"," ","s","a","t","i","v","a",
      "-","d","o","m","i","n","a","n","t"," ","h","y","b","r","i","d"," ","w","i","t","h"," ",
      "1","8","-","2","4","%"," ","T","H","C">>

SampleTable ==
    Table(<<<<<<"T","H","C"," ","C","o","n","t","e","n","t">>, <<"1","8","-","2","4","%">>>>,
            <<<<"C","B","D"," ","C","o","n","t","e","n","t">>, <<"0",".","1","-","0",".","2","%">>>>,
            <<<<"F","l","o","w","e","r","i","n","g"," ","T","i","m","e">>, <<"9","-","1","0"," ","w","e","e","k","s">>>>,
            <<<<"H","e","i","g","h","t">>, <<"1","2","0","-","1","8","0","c","m">>>>>>)

BlueDream ==
    LET
        SampleParagraph ==
            <<"B","l","u","e"," ","D","r","e","a","m"," ","i","s"," ","a"," ","l","e","g","e","n","d",
              "a","r","y"," ","s","a","t","i","v","a","-","d","o","m","i","n","a","n","t"," ","h","y",
              "b","r","i","d"," ","w","i","t","h"," ","u","p","l","i","f","t","i","n","g"," ","a","n",
              "d"," ","e","u","p","h","o","r","i","c"," ","e","f","f","e","c","t","s","."," ","\n"," ",
              " "," "," "," "," "," "," "," "," "," "," "," "," "," ","T","h","i","s"," ","s","t","r",
              "a","i","n"," ","p","r","o","d","u","c","e","s"," ","c","i","t","r","u","s"," ","a","n",
              "d"," ","b","e","r","r","y"," ","f","l","a","v","o","r","s"," ","w","i","t","h"," ","s",
              "w","e","e","t"," ","u","n","d","e","r","t","o","n","e","s",".">>
    IN
    [title |-> SampleTitle, meta |-> SampleMeta,
     body  |-> <<Elem("div", <<"p","r","o","d","u","c","t","-","d","e","s","c","r","i","p","t","i","o","n">>, SampleParagraph), SampleTable>>]

\* a table with one specification keyword only
PriceTable ==
    Table(<<<<<<"P","r","i","c","e">>, <<"1","0">>>>,
            <<<<"H","e","i","g","h","t">>, <<"T","a","l","l">>>>>>)

\* a specification table: padded cells, a one-cell row, an empty label, an empty value, two rows for height, an unmapped label
GrowTable ==
    Table(<<<<<<"P","l","a","n","t"," ","H","e","i","g","h","t">>, <<" ","1","5","0","c","m"," ">>>>,
            <<<<"Y","i","e","l","d">>, <<"5","0","0","g">>>>,
            <<<<"N","o","t","e">>>>,
            <<<<>>, <<"S","a","t","i","v","a">>>>,
            <<<<"E","f","f","e","c","t","s">>, <<" ">>>>,
            <<<<"S","i","z","e">>, <<"T","a","l","l">>>>,
            <<<<"P","r","i","c","e">>, <<"1","0">>>>>>)

PotencyTable ==
    Table(<<<<<<"T","H","C">>, <<"2","2","%">>>>,
            <<<<"C","B","D"," ","%">>, <<"1","%">>>>,
            <<<<"G","e","n","e","t","i","c","s">>, <<"6","0","%"," ","S","a","t","i","v","a"," ","4","0","%"," ","I","n","d","i","c","a">>>>>>)

\* description-like elements
GrowText ==
    Elem("div", <<"s","t","r","a","i","n","-","i","n","f","o">>,
         <<"G","r","o","w","s"," ","t","o"," ","9","0","c","m"," ","i","n","d","o","o","r",".",
          " ","S","w","e","e","t"," ","t","a","s","t","e","!"," ","H","a","p","p","y"," ","h",
          "i","g","h">>)

ShortNote ==
    Elem("p", <<"d","e","s","c","r","i","p","t","i","o","n">>, <<"T","o","o"," ","s","h","o","r","t">>)

PlainText ==
    Elem("p", <<>>, <<"T","H","C",":"," ","2","0","%","."," ","F","l","o","w","e","r","i","n","g"," ","t","i","m","e",":"," ","8"," ","w","e","e","k","s">>)

\* rating and difficulty indicators
RatingImg ==
    Img(<<"r","a","t","i","n","g","-","i","m","g">>, <<"4"," ","s","t","a","r"," ","r","a","t","i","n","g">>)

LogoImg ==
    Img(<<"s","c","o","r","e">>, <<"l","o","g","o">>)

StarDiv ==
    LET
        Stars(tag, class, stars) ==
            [kind |-> "elem", tag |-> tag, class |-> class, text |-> <<>>, alt |-> <<>>, stars |-> stars]
    IN
    Stars("div", <<"S","t","a","r","-","r","a","t","i","n","g">>, 4)

DifficultyBadge ==
    Elem("span", <<"d","i","f","f","i","c","u","l","t","y","-","b","a","d","g","e">>, <<"E","a","s","y">>)

\* linked-data blocks
LdFull ==
    Script(JsonObject([m \in {"name", "description"} |->
              IF m = "name" THEN <<"B","l","u","e"," ","D","r","e","a","m">> ELSE <<"H","y","b","r","i","d">>]))

LdName ==
    Script(JsonObject([m \in {"name", "sku"} |->
              IF m = "name" THEN <<"O","G"," ","K","u","s","h">> ELSE <<"1","7">>]))

LdInvalid ==
    Script([k |-> "invalid"])

LdOther ==
    Script([k |-> "other"])

LdNoString ==
    Script([k |-> "nostring"])

\* the documents handed to extract_strain_data
Documents ==
    <<BlueDream,
      [title |-> None, meta |-> None, body |-> <<>>],
      [title |-> <<" ","O","G"," ","K","u","s","h"," ">>, meta |-> <<>>, body |-> <<PriceTable>>],
      [title |-> None, meta |-> None, body |-> <<PriceTable, GrowTable>>],
      [title |-> None, meta |-> None, body |-> <<GrowTable, PotencyTable, GrowText>>],
      [title |-> None, meta |-> None, body |-> <<PotencyTable, PriceTable, GrowTable>>],
      [title |-> None, meta |-> None, body |-> <<ShortNote, PlainText>>],
      [title |-> None, meta |-> None, body |-> <<GrowText, RatingImg, StarDiv>>],
      [title |-> None, meta |-> None, body |-> <<StarDiv, RatingImg, LogoImg, DifficultyBadge>>],
      [title |-> None, meta |-> None, body |-> <<LogoImg, ShortNote>>],
      [title |-> None, meta |-> SampleMeta, body |-> <<LdFull, PlainText>>],
      [title |-> None, meta |-> None, body |-> <<LdFull, LdInvalid, LdName, StarDiv>>],
      [title |-> None, meta |-> None, body |-> <<LdOther, GrowText, LdInvalid>>],
      [title |-> None, meta |-> None, body |-> <<PlainText, LdNoString>>],
      [title |-> SampleTitle, meta |-> None, body |-> <<SampleTable, LdName, LdNoString, LdFull>>],
      [title |-> None, meta |-> None, body |-> <<PotencyTable, PlainText, DifficultyBadge, LdInvalid>>]>>

\* the outputs of the five strategies for one document
StrategyOutputs(doc) ==
    [table_data   |-> _extract_from_tables(doc),
     desc_data    |-> _extract_from_descriptions(doc),
     pattern_data |-> _extract_with_patterns(doc),
     image_data   |-> _extract_from_images(doc),
     meta         |-> _extract_metadata(doc)]

\* StrategyOutputs of every document, evaluated once
StrategyTable == [i \in 1..Len(Documents) |-> StrategyOutputs(Documents[i])]

Strategies(doc) ==
    StrategyTable[CHOOSE i \in 1..Len(Documents) : Documents[i] = doc]

(***************************************************************************)
(* extract_strain_data                                                     *)
(***************************************************************************)
\* self.extraction_stats as set by __init__
InitExtractionStats ==
    [tables_found |-> 0, descriptions_found |-> 0,
     patterns_matched |-> 0, images_processed |-> 0]

\* variant: the counter counts the calls of the strategy
BumpEveryCall(stats, counter, data) == [stats EXCEPT ![counter] = @ + 1]

Bump(stats, counter, data) ==
    IF data # EmptyDict THEN [stats EXCEPT ![counter] = @ + 1] ELSE stats

\* result [raised, raw_data, strategies, stats]: raised says that the call
\* ended with an exception (and returned no record), raw_data is
\* extracted_data['raw_data'], strategies are the mappings the five
\* strategies returned, in the order of the calls, and stats is
\* self.extraction_stats after the call
extract_strain_data(stats, doc) ==
    CHOOSE r \in
      {LET table_data   == out.table_data
           desc_data    == out.desc_data
           pattern_data == out.pattern_data
           image_data   == out.image_data
           meta         == out.meta
           s1 == Bump(stats, "tables_found", table_data)
           s2 == Bump(s1, "descriptions_found", desc_data)
           s3 == Bump(s2, "patterns_matched", pattern_data)
           s4 == Bump(s3, "images_processed", image_data)
           raw_data == Update(Update(Update(Update(Update(EmptyDict,
                           table_data), desc_data), pattern_data), image_data), meta.data)
       IN  [raised     |-> meta.raised,
            raw_data   |-> IF meta.raised THEN EmptyDict ELSE raw_data,
            strategies |-> <<table_data, desc_data, pattern_data, image_data, meta.data>>,
            stats      |-> s4]
       : out \in {Strategies(doc)}} : TRUE

\* variant: the accessor returns the mapping the instance holds
get_extraction_stats_no_copy(stats) == [mapping |-> stats, shared |-> TRUE]

\* get_extraction_stats: the mapping returned, and whether it is the object
\* the instance holds (self.extraction_stats.copy() is a new object)
get_extraction_stats(stats) == [mapping |-> stats, shared |-> FALSE]



(***************************************************************************)
(* CannabisOutlierDetector (src/src/utils/outlier_detection.py)            *)
(*                                                                         *)
(* A dataset is [columns, rows]: the set of column names and the rows in   *)
(* index order, each a function from the columns to values.  Numeric       *)
(* values are in hundredths, confidence_score is a plain integer, and a    *)
(* missing value is Null (NaN: every comparison with it is false).         *)
(***************************************************************************)
\* self.validation_rules as set by __init__, in insertion order:
\* <<field, rules>>; the bounds of confidence_score are plain integers
InitValidationRules ==
    <<<<"thc_percentage",     [min |-> N(0),  max |-> N(45),   typical_max |-> N(35)]>>,
      <<"cbd_percentage",     [min |-> N(0),  max |-> N(30),   typical_max |-> N(25)]>>,
      <<"height_cm",          [min |-> N(30), max |-> N(300),  typical_range |-> <<N(60), N(200)>>]>>,
      <<"flowering_days",     [min |-> N(35), max |-> N(120),  typical_range |-> <<N(49), N(84)>>]>>,
      <<"yield_grams_per_m2", [min |-> N(50), max |-> N(1000), typical_range |-> <<N(300), N(600)>>]>>,
      <<"sativa_percentage",  [min |-> N(0),  max |-> N(100)]>>,
      <<"indica_percentage",  [min |-> N(0),  max |-> N(100)]>>,
      <<"confidence_score",   [min |-> 1,     max |-> 5]>>>>

\* self.outlier_stats as set by __init__
InitOutlierStats ==
    [total_records |-> 0, outliers_found |-> 0, critical_outliers |-> 0, warnings |-> 0]

\* f"{field}_min"
MinField(field) ==
    CASE field = "thc_percentage"     -> "thc_percentage_min"
      [] field = "cbd_percentage"     -> "cbd_percentage_min"
      [] field = "height_cm"          -> "height_cm_min"
      [] field = "flowering_days"     -> "flowering_days_min"
      [] field = "yield_grams_per_m2" -> "yield_grams_per_m2_min"
      [] field = "sativa_percentage"  -> "sativa_percentage_min"
      [] field = "indica_percentage"  -> "indica_percentage_min"
      [] field = "confidence_score"   -> "confidence_score_min"

\* f"{field}_max"
MaxField(field) ==
    CASE field = "thc_percentage"     -> "thc_percentage_max"
      [] field = "cbd_percentage"     -> "cbd_percentage_max"
      [] field = "height_cm"          -> "height_cm_max"
      [] field = "flowering_days"     -> "flowering_days_max"
      [] field = "yield_grams_per_m2" -> "yield_grams_per_m2_max"
      [] field = "sativa_percentage"  -> "sativa_percentage_max"
      [] field = "indica_percentage"  -> "indica_percentage_max"
      [] field = "confidence_score"   -> "confidence_score_max"

\* comparisons of column values: false when a side is NaN
Lt(a, b) == a # Null /\ b # Null /\ a < b
Le(a, b) == a # Null /\ b # Null /\ a <= b

\* df[mask].index.tolist(): the 0-based indices of the rows that satisfy
\* Mask, ascending
IndexList(df, Mask(_)) ==
    LET hits == SelectSeq([i \in 1..Len(df.rows) |-> i], LAMBDA i : Mask(df.rows[i]))
    IN  [j \in 1..Len(hits) |-> hits[j] - 1]

\* df.loc[idx].get('strain_name', 'Unknown')
StrainName(df, idx) ==
    IF "strain_name" \in df.columns THEN df.rows[idx + 1]["strain_name"] ELSE "Unknown"

\* the findings appended for one check_field and one kind of violation
BoundFindings(df, check_field, violation_type, severity, Mask(_)) ==
    LET violations == IndexList(df, Mask)
    IN  [j \in 1..Len(violations) |->
            [row_index      |-> violations[j],
             field          |-> check_field,
             value          |-> df.rows[violations[j] + 1][check_field],
             violation_type |-> violation_type,
             severity       |-> severity,
             strain_name    |-> StrainName(df, violations[j])]]

\* the body of the loop "for check_field in fields_to_check"
CheckOneField(df, check_field, rules) ==
    LET has(key) == key \in DOMAIN rules
        lo == IF has("min") THEN rules.min ELSE 0           \* rules.get('min', 0)
    IN  (IF has("min")
         THEN BoundFindings(df, check_field, "below_minimum", "critical",
                            LAMBDA row : Lt(row[check_field], rules.min))
         ELSE <<>>)
        \o
        (IF has("max")
         THEN BoundFindings(df, check_field, "above_maximum", "critical",
                            LAMBDA row : Lt(rules.max, row[check_field]))
         ELSE <<>>)
        \o
        (IF has("typical_range")
         THEN BoundFindings(df, check_field, "below_typical", "warning",
                            LAMBDA row : /\ Le(lo, row[check_field])
                                         /\ Lt(row[check_field], rules.typical_range[1]))
              \o
              BoundFindings(df, check_field, "above_typical", "warning",
                            LAMBDA row : /\ (has("max") => Le(row[check_field], rules.max))
                                         /\ row[check_field] # Null
                                         /\ Lt(rules.typical_range[2], row[check_field]))
         ELSE <<>>)

RECURSIVE CheckFields(_, _, _)
CheckFields(df, fields_to_check, rules) ==
    IF fields_to_check = <<>> THEN <<>>
    ELSE CheckOneField(df, fields_to_check[1], rules)
            \o CheckFields(df, Tail(fields_to_check), rules)

_check_field_outliers(df, field, rules) ==
    LET fields_to_check ==
            SelectSeq(<<MinField(field), MaxField(field), field>>,
                      LAMBDA c : c \in df.columns)
    IN  CheckFields(df, fields_to_check, rules)

RECURSIVE RuleLoop(_, _)
\* the loop "for field, rules in self.validation_rules.items()"
RuleLoop(df, validation_rules) ==
    IF validation_rules = <<>> THEN <<>>
    ELSE (IF validation_rules[1][1] \in df.columns
          THEN _check_field_outliers(df, validation_rules[1][1], validation_rules[1][2])
          ELSE <<>>)
            \o RuleLoop(df, Tail(validation_rules))

Abs(x) == IF x < 0 THEN -x ELSE x

RECURSIVE PairLoopNotLess(_, _)
\* variant: a minimum equal to the maximum is a violation as well
PairLoopNotLess(df, pairs) ==
    IF pairs = <<>> THEN <<>>
    ELSE
      LET min_field  == pairs[1][1]
          max_field  == pairs[1][2]
          violations == IndexList(df, LAMBDA row : Le(row[max_field], row[min_field]))
      IN  (IF min_field \in df.columns /\ max_field \in df.columns
           THEN [j \in 1..Len(violations) |->
                    [row_index      |-> violations[j],
                     violation_type |-> "min_greater_than_max",
                     fields         |-> <<min_field, max_field>>,
                     min_value      |-> df.rows[violations[j] + 1][min_field],
                     max_value      |-> df.rows[violations[j] + 1][max_field],
                     severity       |-> "critical",
                     strain_name    |-> StrainName(df, violations[j])]]
           ELSE <<>>)
          \o PairLoopNotLess(df, Tail(pairs))

RECURSIVE PairLoop(_, _)
PairLoop(df, pairs) ==
    IF pairs = <<>> THEN <<>>
    ELSE
      LET min_field  == pairs[1][1]
          max_field  == pairs[1][2]
          violations == IndexList(df, LAMBDA row : Lt(row[max_field], row[min_field]))
      IN  (IF min_field \in df.columns /\ max_field \in df.columns
           THEN [j \in 1..Len(violations) |->
                    [row_index      |-> violations[j],
                     violation_type |-> "min_greater_than_max",
                     fields         |-> <<min_field, max_field>>,
                     min_value      |-> df.rows[violations[j] + 1][min_field],
                     max_value      |-> df.rows[violations[j] + 1][max_field],
                     severity       |-> "critical",
                     strain_name    |-> StrainName(df, violations[j])]]
           ELSE <<>>)
          \o PairLoop(df, Tail(pairs))

\* variant: a deviation of exactly 5 is critical
GeneticsFindingsStrict(df) ==
    LET genetics_violations ==
            IndexList(df, LAMBDA row :
                /\ row["sativa_percentage"] # Null
                /\ row["indica_percentage"] # Null
                /\ Abs(row["sativa_percentage"] + row["indica_percentage"] - N(100)) > N(1))
        total(idx) == df.rows[idx + 1]["sativa_percentage"]
                         + df.rows[idx + 1]["indica_percentage"]
    IN  IF "sativa_percentage" \in df.columns /\ "indica_percentage" \in df.columns
        THEN [j \in 1..Len(genetics_violations) |->
                [row_index         |-> genetics_violations[j],
                 violation_type    |-> "genetics_not_100_percent",
                 sativa_percentage |-> df.rows[genetics_violations[j] + 1]["sativa_percentage"],
                 indica_percentage |-> df.rows[genetics_violations[j] + 1]["indica_percentage"],
                 total_percentage  |-> total(genetics_violations[j]),
                 severity          |-> IF Abs(total(genetics_violations[j]) - N(100)) < N(5)
                                       THEN "warning" ELSE "critical",
                 strain_name       |-> StrainName(df, genetics_violations[j])]]
        ELSE <<>>

GeneticsFindings(df) ==
    LET genetics_violations ==
            IndexList(df, LAMBDA row :
                /\ row["sativa_percentage"] # Null
                /\ row["indica_percentage"] # Null
                /\ Abs(row["sativa_percentage"] + row["indica_percentage"] - N(100)) > N(1))
        total(idx) == df.rows[idx + 1]["sativa_percentage"]
                         + df.rows[idx + 1]["indica_percentage"]
    IN  IF "sativa_percentage" \in df.columns /\ "indica_percentage" \in df.columns
        THEN [j \in 1..Len(genetics_violations) |->
                [row_index         |-> genetics_violations[j],
                 violation_type    |-> "genetics_not_100_percent",
                 sativa_percentage |-> df.rows[genetics_violations[j] + 1]["sativa_percentage"],
                 indica_percentage |-> df.rows[genetics_violations[j] + 1]["indica_percentage"],
                 total_percentage  |-> total(genetics_violations[j]),
                 severity          |-> IF Abs(total(genetics_violations[j]) - N(100)) <= N(5)
                                       THEN "warning" ELSE "critical",
                 strain_name       |-> StrainName(df, genetics_violations[j])]]
        ELSE <<>>

HighBothFindings(df) ==
    LET high_both ==
            IndexList(df, LAMBDA row :
                /\ Lt(N(20), row["thc_percentage_max"])
                /\ Lt(N(15), row["cbd_percentage_max"]))
    IN  IF "thc_percentage_max" \in df.columns /\ "cbd_percentage_max" \in df.columns
        THEN [j \in 1..Len(high_both) |->
                [row_index      |-> high_both[j],
                 violation_type |-> "high_thc_and_cbd",
                 thc_max        |-> df.rows[high_both[j] + 1]["thc_percentage_max"],
                 cbd_max        |-> df.rows[high_both[j] + 1]["cbd_percentage_max"],
                 severity       |-> "warning",
                 strain_name    |-> StrainName(df, high_both[j])]]
        ELSE <<>>

_check_impossible_combinations(df) ==
    LET
        min_max_pairs ==
            <<<<"thc_percentage_min", "thc_percentage_max">>,
              <<"cbd_percentage_min", "cbd_percentage_max">>,
              <<"height_cm_min", "height_cm_max">>,
              <<"flowering_days_min", "flowering_days_max">>,
              <<"yield_grams_per_m2_min", "yield_grams_per_m2_max">>>>
    IN
    PairLoop(df, min_max_pairs) \o GeneticsFindings(df) \o HighBothFindings(df)

\* the number of rows that satisfy Mask
CountRows(df, Mask(_)) == Cardinality({i \in 1..Len(df.rows) : Mask(df.rows[i])})

RECURSIVE RoundLoopFrom80(_, _)
\* variant: a share of 80% is enough
RoundLoopFrom80(df, fields) ==
    IF fields = <<>> THEN <<>>
    ELSE
      LET field        == fields[1]
          round_values == CountRows(df, LAMBDA row : row[field] # Null /\ row[field] % N(5) = 0)
          total_values == CountRows(df, LAMBDA row : row[field] # Null)
      IN  (IF /\ field \in df.columns
              /\ total_values > 0
              /\ round_values * 100 >= 80 * total_values
           THEN <<[pattern_type |-> "too_many_round_numbers",
                   field        |-> field,
                   round_values |-> round_values,
                   total_values |-> total_values,
                   severity     |-> "warning"]>>
           ELSE <<>>)
          \o RoundLoopFrom80(df, Tail(fields))

RECURSIVE RoundLoop(_, _)
RoundLoop(df, fields) ==
    IF fields = <<>> THEN <<>>
    ELSE
      LET field        == fields[1]
          round_values == CountRows(df, LAMBDA row : row[field] # Null /\ row[field] % N(5) = 0)
          total_values == CountRows(df, LAMBDA row : row[field] # Null)
      IN  (IF /\ field \in df.columns
              /\ total_values > 0
              /\ round_values * 100 > 80 * total_values  \* round_percentage > 80
           THEN <<[pattern_type |-> "too_many_round_numbers",
                   field        |-> field,
                   round_values |-> round_values,
                   total_values |-> total_values,
                   severity     |-> "warning"]>>
           ELSE <<>>)
          \o RoundLoop(df, Tail(fields))

DuplicateFindings(df) ==
    LET
        key_fields == <<"thc_percentage_max", "cbd_percentage_max", "flowering_days_max">>
    IN
    LET available_fields == SelectSeq(key_fields, LAMBDA f : f \in df.columns)
        same(r1, r2) == \A j \in 1..Len(available_fields) :
                            r1[available_fields[j]] = r2[available_fields[j]]
        \* df.duplicated(subset=available_fields, keep=False).sum()
        duplicate_count ==
            Cardinality({i \in 1..Len(df.rows) :
                            \E k \in 1..Len(df.rows) :
                                k # i /\ same(df.rows[i], df.rows[k])})
    IN  IF /\ Len(df.rows) > 100
           /\ Len(available_fields) >= 2
           /\ duplicate_count * 10 > Len(df.rows)         \* > len(df) * 0.1
        THEN <<[pattern_type    |-> "high_duplicate_rate",
                duplicate_count |-> duplicate_count,
                total_records   |-> Len(df.rows),
                severity        |-> "warning"]>>
        ELSE <<>>

_check_suspicious_patterns(df) ==
    LET
        numeric_fields ==
            <<"thc_percentage_min", "thc_percentage_max", "cbd_percentage_min", "cbd_percentage_max">>
    IN
    RoundLoop(df, numeric_fields) \o DuplicateFindings(df)

\* the number of findings of a list with the given severity
CountSeverity(findings, severity) ==
    Cardinality({j \in 1..Len(findings) : findings[j].severity = severity})

\* variant: the findings are added to the counts the instance holds
_generate_summary_running_total(outlier_stats, outlier_results) ==
    LET total_outliers == outlier_stats.outliers_found
                             + Len(outlier_results.critical_outliers)
                             + Len(outlier_results.impossible_values)
        critical_count == CountSeverity(outlier_results.critical_outliers, "critical")
                             + CountSeverity(outlier_results.impossible_values, "critical")
        warning_count  == CountSeverity(outlier_results.critical_outliers, "warning")
                             + CountSeverity(outlier_results.impossible_values, "warning")
        total_records  == outlier_stats.total_records
        pct            == (total_outliers * 100 * Scale) \div total_records
        Max0(x)        == IF x > 0 THEN x ELSE 0
    IN  [summary |->
            [total_records      |-> total_records,
             total_outliers     |-> total_outliers,
             critical_outliers  |-> critical_count,
             warnings           |-> warning_count,
             clean_records      |-> total_records - total_outliers,
             outlier_percentage |-> IF total_records > 0 THEN pct ELSE 0,
             data_quality_score |-> IF total_records > 0 THEN Max0(N(100) - pct) ELSE 0],
         stats |->
            [outlier_stats EXCEPT !.outliers_found    = total_outliers,
                                  !.critical_outliers = critical_count,
                                  !.warnings          = warning_count]]

\* variant: the suspicious-pattern findings are counted among the warnings
_generate_summary_counting_patterns(outlier_stats, outlier_results) ==
    LET total_outliers == Len(outlier_results.critical_outliers)
                             + Len(outlier_results.impossible_values)
        critical_count == CountSeverity(outlier_results.critical_outliers, "critical")
                             + CountSeverity(outlier_results.impossible_values, "critical")
        warning_count  == CountSeverity(outlier_results.critical_outliers, "warning")
                             + CountSeverity(outlier_results.impossible_values, "warning")
                             + Len(outlier_results.suspicious_patterns)
        total_records  == outlier_stats.total_records
        pct            == (total_outliers * 100 * Scale) \div total_records
        Max0(x)        == IF x > 0 THEN x ELSE 0
    IN  [summary |->
            [total_records      |-> total_records,
             total_outliers     |-> total_outliers,
             critical_outliers  |-> critical_count,
             warnings           |-> warning_count,
             clean_records      |-> total_records - total_outliers,
             outlier_percentage |-> IF total_records > 0 THEN pct ELSE 0,
             data_quality_score |-> IF total_records > 0 THEN Max0(N(100) - pct) ELSE 0],
         stats |->
            [outlier_stats EXCEPT !.outliers_found    = total_outliers,
                                  !.critical_outliers = critical_count,
                                  !.warnings          = warning_count]]

\* result [summary, stats]: the summary mapping and self.outlier_stats after
\* the call; percentages in hundredths
_generate_summary(outlier_stats, outlier_results) ==
    LET total_outliers == Len(outlier_results.critical_outliers)
                             + Len(outlier_results.impossible_values)
        critical_count == CountSeverity(outlier_results.critical_outliers, "critical")
                             + CountSeverity(outlier_results.impossible_values, "critical")
        warning_count  == CountSeverity(outlier_results.critical_outliers, "warning")
                             + CountSeverity(outlier_results.impossible_values, "warning")
        total_records  == outlier_stats.total_records
        pct            == (total_outliers * 100 * Scale) \div total_records
        Max0(x)        == IF x > 0 THEN x ELSE 0
    IN  [summary |->
            [total_records      |-> total_records,
             total_outliers     |-> total_outliers,
             critical_outliers  |-> critical_count,
             warnings           |-> warning_count,
             clean_records      |-> total_records - total_outliers,
             outlier_percentage |-> IF total_records > 0 THEN pct ELSE 0,
             data_quality_score |-> IF total_records > 0 THEN Max0(N(100) - pct) ELSE 0],
         stats |->
            [outlier_stats EXCEPT !.outliers_found    = total_outliers,
                                  !.critical_outliers = critical_count,
                                  !.warnings          = warning_count]]

\* result [results, stats]: the report returned by detect_outliers and
\* self.outlier_stats after the call
detect_outliers(validation_rules, outlier_stats, df) ==
    LET stats1 == [outlier_stats EXCEPT !.total_records = Len(df.rows)]
        lists  == [critical_outliers   |-> RuleLoop(df, validation_rules),
                   warnings            |-> <<>>,
                   impossible_values   |-> _check_impossible_combinations(df),
                   suspicious_patterns |-> _check_suspicious_patterns(df)]
        sum    == _generate_summary(stats1, lists)
    IN  [results |-> [critical_outliers   |-> lists.critical_outliers,
                      warnings            |-> lists.warnings,
                      impossible_values   |-> lists.impossible_values,
                      suspicious_patterns |-> lists.suspicious_patterns,
                      summary             |-> sum.summary],
         stats   |-> sum.stats]


\* generate_report: the lines of the text, from the counts of the summary
\* on (the three lines that print a percentage with one decimal are left
\* out); a line is a tuple that starts with its kind
generate_report(outlier_results) ==
    LET summary == outlier_results.summary
        First(list, n) == SubSeq(list, 1, IF Len(list) < n THEN Len(list) ELSE n)
        shown    == First(outlier_results.critical_outliers, 10)
        critical == SelectSeq(shown, LAMBDA outlier : outlier.severity = "critical")
        combined == First(outlier_results.impossible_values, 5)
    IN  <<<<"count", "Total Records Analyzed", summary.total_records>>,
          <<"count", "Critical", summary.critical_outliers>>,
          <<"count", "Warnings", summary.warnings>>,
          <<"blank">>>>
        \o
        (IF outlier_results.critical_outliers # <<>>
         THEN <<<<"heading", "CRITICAL OUTLIERS (Impossible Values):">>>>
              \o [j \in 1..Len(critical) |->
                     <<"critical", critical[j].strain_name, critical[j].field,
                       critical[j].value, critical[j].violation_type>>]
              \o (IF Len(outlier_results.critical_outliers) > 10
                  THEN <<<<"more", Len(outlier_results.critical_outliers) - 10>>>>
                  ELSE <<>>)
              \o <<<<"blank">>>>
         ELSE <<>>)
        \o
        (IF outlier_results.impossible_values # <<>>
         THEN <<<<"heading", "IMPOSSIBLE VALUE COMBINATIONS:">>>>
              \o [j \in 1..Len(combined) |->
                     <<"impossible", combined[j].strain_name, combined[j].violation_type>>]
              \o (IF Len(outlier_results.impossible_values) > 5
                  THEN <<<<"more", Len(outlier_results.impossible_values) - 5>>>>
                  ELSE <<>>)
              \o <<<<"blank">>>>
         ELSE <<>>)
        \o
        (IF outlier_results.suspicious_patterns # <<>>
         THEN <<<<"heading", "SUSPICIOUS PATTERNS:">>>>
              \o [j \in 1..Len(outlier_results.suspicious_patterns) |->
                     <<"pattern", outlier_results.suspicious_patterns[j].pattern_type>>]
              \o <<<<"blank">>>>
         ELSE <<>>)
        \o <<<<"end">>>>

(***************************************************************************)
(* Inputs of the normalizer and of the detector                            *)
(***************************************************************************)
\* the raw fields read by process_bronze_to_gold
RawFields == {"height", "flowering_time", "thc_content", "cbd_content",
              "genetics", "effects", "flavors"}

\* the bronze record in which field f is absent (choice 0), short (1), long
\* (2) or a miss (3)
BronzeOf(choice) ==
    LET
        \* per raw field: a value longer than 2 characters that holds no number the
        \* normalizer reads and no keyword it knows
        MissText ==
            [f \in RawFields |->
                CASE f = "height"         -> <<"v","e","r","y"," ","b","i","g">>
                  [] f = "flowering_time" -> <<"f","a","s","t"," ","f","i","n","i","s","h","e","r">>
                  [] f = "thc_content"    -> <<"q","u","i","t","e"," ","h","i","g","h">>
                  [] f = "cbd_content"    -> <<"n","o","n","e">>
                  [] f = "genetics"       -> <<"H","a","z","e"," ","x"," ","S","k","u","n","k">>
                  [] f = "effects"        -> <<"s","t","r","o","n","g">>
                  [] f = "flavors"        -> <<"b","l","a","n","d">>]
    IN
    LET
        LongText ==
            [f \in RawFields |->
                CASE f = "height"         -> <<"8","0","-","1","2","0","c","m"," ","i","n","d","o","o","r",","," ","u","p"," ","t","o"," ","1","8","0","c","m"," ","o","u","t","d","o","o","r">>
                  [] f = "flowering_time" -> <<"8","-","9"," ","w","e","e","k","s">>
                  [] f = "thc_content"    -> <<"1","8","-","2","2","%"," ","T","H","C">>
                  [] f = "cbd_content"    -> <<"L","o","w"," ","C","B","D"," ","<","1","%">>
                  [] f = "genetics"       -> <<"6","0","%"," ","S","a","t","i","v","a",","," ","4","0","%"," ","I","n","d","i","c","a"," ","h","y","b","r","i","d">>
                  [] f = "effects"        -> <<"E","u","p","h","o","r","i","c",","," ","u","p","l","i","f","t","i","n","g",","," ","c","r","e","a","t","i","v","e"," ","e","n","e","r","g","y">>
                  [] f = "flavors"        -> <<"C","i","t","r","u","s",","," ","l","e","m","o","n",","," ","s","w","e","e","t"," ","b","e","r","r","y"," ","n","o","t","e","s">>]
    IN
    LET
        \* per raw field: a value of at most 2 characters once trimmed, and a longer
        \* value
        ShortText ==
            [f \in RawFields |->
                CASE f = "height"         -> <<"1","m">>
                  [] f = "flowering_time" -> <<" ","9","w"," ">>
                  [] f = "thc_content"    -> <<"5","%">>
                  [] f = "cbd_content"    -> <<" ","1","%">>
                  [] f = "genetics"       -> <<"O","G">>
                  [] f = "effects"        -> <<" "," ">>
                  [] f = "flavors"        -> <<>>]
    IN
    [key \in {<<f, "raw">> : f \in {g \in RawFields : choice[g] # 0}} |->
        CASE choice[key[1]] = 1 -> ShortText[key[1]]
          [] choice[key[1]] = 2 -> LongText[key[1]]
          [] choice[key[1]] = 3 -> MissText[key[1]]]

BronzeInputs ==
    LET
        \* further raw texts, each tried alone in a bronze record
        OtherTexts ==
            [f \in RawFields |->
                CASE f = "height"         -> {<<"1","2","0","-","8","0","c","m">>, <<"5"," ","f","e","e","t">>, <<"8","0","-","1","2","0","c","m">>, <<"T","a","l","l">>, <<"s","h","o","r","t",","," ","6","0","c","m">>, <<"3","-","4"," ","f","t">>, <<"v","e","r","y"," ","b","i","g">>, <<"T","a","l","l"," ","t","o"," ","m","e","d","i","u","m">>, <<"M","E","D","I","U","M"," ","1","0","0","-","1","5","0"," ","c","m">>, <<"4"," ","f","t"," ","(","1","2","0","c","m",")">>, <<"T","a","l","l",","," ","6"," ","f","e","e","t">>}
                  [] f = "flowering_time" -> {<<"1","0","-","8"," ","w","e","e","k","s">>, <<"6","0"," ","d","a","y","s">>, <<"5","6","-","6","3"," ","D","a","y","s">>, <<"f","a","s","t">>, <<"6","0"," ","d","a","y","s"," ","o","r"," ","9"," ","w","e","e","k","s">>, <<"8","-","9"," ","w","e","e","k","s"," ","(","5","6"," ","d","a","y","s",")">>, <<"7"," ","W","k","s">>}
                  [] f = "thc_content"    -> {<<"2","4","-","1","8","%">>, <<"1","8","%">>, <<"1","5","0","%">>, <<"0",".","5"," ","-"," ","1",".","5"," ","%">>, <<"h","i","g","h">>}
                  [] f = "cbd_content"    -> {<<"0",".","1","-","0",".","2","%">>, <<"n","o","n","e">>}
                  [] f = "genetics"       -> {<<"7","0"," ","%"," ","i","n","d","i","c","a">>, <<"1","2","0","%"," ","s","a","t","i","v","a">>, <<"H","a","z","e"," ","x"," ","S","k","u","n","k">>}
                  [] f = "effects"        -> {<<"h","a","p","p","y"," ","a","n","d"," ","r","e","l","a","x","i","n","g">>, <<"s","t","r","o","n","g">>, <<"S","l","e","e","p","y",","," ","h","a","p","p","y",","," ","H","A","P","P","Y">>}
                  [] f = "flavors"        -> {<<"l","e","m","o","n"," ","l","e","m","o","n"," ","c","i","t","r","u","s">>, <<"S","w","e","e","t"," ","P","I","N","E">>, <<"b","l","a","n","d">>}]
    IN
    LET
        \* every field absent or long, or one field short beside fields that are all
        \* absent or all long, or every field short, or a short thc_content beside
        \* long fields of weight 7, or misses: of every numeric field, of
        \* thc_content and flowering_time alone, of thc_content beside long fields
        Choices ==
            [RawFields -> {0, 2}]
                \cup {[f \in RawFields |-> IF f = g THEN 1 ELSE c] : g \in RawFields, c \in {0, 2}}
                \cup {[f \in RawFields |-> 1]}
                \cup {[f \in RawFields |->
                           CASE f = "thc_content" -> 1
                             [] f \in {"flowering_time", "height", "cbd_content"} -> 2
                             [] OTHER -> 0]}
                \cup {[f \in RawFields |-> IF f \in {"effects", "flavors"} THEN 0 ELSE 3],
                      [f \in RawFields |-> IF f \in {"thc_content", "flowering_time"} THEN 3 ELSE 0],
                      [f \in RawFields |-> IF f = "thc_content" THEN 3 ELSE 2]}
    IN
    {BronzeOf(choice) : choice \in Choices}
        \cup UNION {{[key \in {<<f, "raw">>} |-> t] : t \in OtherTexts[f]} : f \in RawFields}


\* the columns of a dataset of gold records, and the plain columns that a
\* wider dataset may carry as well
GoldColumns ==
    {"height_cm_min", "height_cm_max", "flowering_days_min", "flowering_days_max",
     "thc_percentage_min", "thc_percentage_max", "cbd_percentage_min",
     "cbd_percentage_max", "sativa_percentage", "indica_percentage",
     "effects_standardized", "flavors_standardized", "confidence_score"}
ColumnSets ==
    {GoldColumns \cup {"strain_name"},
     GoldColumns \cup {"strain_name", "thc_percentage", "cbd_percentage",
                                          "height_cm", "flowering_days"},
     GoldColumns \cup {"strain_name", "yield_grams_per_m2_min",
                                          "yield_grams_per_m2_max"}}

\* 'Normal Strain' of main(); the plain columns hold the upper value
NormalRow ==
    [strain_name |-> "Normal Strain",
     thc_percentage_min |-> N(15), thc_percentage_max |-> N(20), thc_percentage |-> N(20),
     cbd_percentage_min |-> N(1),  cbd_percentage_max |-> N(2),  cbd_percentage |-> N(2),
     height_cm_min |-> N(80),      height_cm_max |-> N(120),     height_cm |-> N(120),
     flowering_days_min |-> N(49), flowering_days_max |-> N(63), flowering_days |-> N(63),
     yield_grams_per_m2_min |-> N(400), yield_grams_per_m2_max |-> N(500),
     sativa_percentage |-> N(50),  indica_percentage |-> N(50),
     effects_standardized |-> None, flavors_standardized |-> None,
     confidence_score |-> 5]

\* the rows a dataset is made of: the normal row and rows that break one
\* rule each
Rows ==
    {NormalRow,
     [NormalRow EXCEPT !.strain_name = "Impossible Strain",
                       !.thc_percentage_min = N(60), !.thc_percentage_max = N(70)],
     [NormalRow EXCEPT !.strain_name = "High Min", !.thc_percentage_min = N(60)],
     [NormalRow EXCEPT !.strain_name = "Dwarf", !.height_cm_min = N(20)],
     [NormalRow EXCEPT !.strain_name = "Slow", !.flowering_days_max = N(100)],
     [NormalRow EXCEPT !.strain_name = "Squat", !.height_cm = N(40)],
     [NormalRow EXCEPT !.strain_name = "Potent", !.thc_percentage = N(40)],
     [NormalRow EXCEPT !.strain_name = "Flat",
                       !.cbd_percentage_min = N(2), !.flowering_days_max = Null],
     [NormalRow EXCEPT !.strain_name = "Poor Yield", !.yield_grams_per_m2_min = N(600)],
     [NormalRow EXCEPT !.strain_name = "Unknown Genetics",
                       !.sativa_percentage = Null, !.indica_percentage = Null,
                       !.thc_percentage_min = Null, !.thc_percentage_max = Null],
     [NormalRow EXCEPT !.strain_name = "Off Genetics",
                       !.sativa_percentage = N(60), !.indica_percentage = N(20)],
     [NormalRow EXCEPT !.strain_name = "Loose Genetics",
                       !.sativa_percentage = N(60), !.indica_percentage = N(35)],
     [NormalRow EXCEPT !.strain_name = "Near Genetics",
                       !.sativa_percentage = N(60), !.indica_percentage = N(39)]}

\* long datasets: n rows that differ from each other in flowering_days_max,
\* then k1 copies of one row, then k2 copies of another
BulkDatasets ==
    LET Series(n)      == [k \in 1..n |-> [NormalRow EXCEPT !.strain_name = "Series",
                                                            !.flowering_days_max = N(63) + k]]
        Copies(row, k) == [j \in 1..k |-> row]
        Odd     == [NormalRow EXCEPT !.strain_name = "Odd", !.thc_percentage_min = N(17),
                                     !.thc_percentage_max = N(22), !.cbd_percentage_min = N(0)]
        Blank   == [NormalRow EXCEPT !.strain_name = "Blank", !.thc_percentage_min = Null,
                                     !.thc_percentage_max = Null]
        Squat   == [NormalRow EXCEPT !.strain_name = "Squat", !.height_cm = N(40)]
        Late    == [NormalRow EXCEPT !.strain_name = "Late", !.flowering_days = N(200)]
        HighMin == [NormalRow EXCEPT !.strain_name = "High Min", !.thc_percentage_min = N(60)]
        Hot     == [NormalRow EXCEPT !.strain_name = "Impossible Strain",
                                     !.thc_percentage = N(70)]
        recipes ==
            {<<4, Odd, 1, Odd, 0>>, <<5, Odd, 1, Odd, 0>>, <<8, Odd, 2, Odd, 0>>,
             <<4, Blank, 1, Odd, 0>>, <<4, Blank, 1, Odd, 1>>, <<0, Blank, 5, Odd, 0>>,
             <<0, Odd, 5, Blank, 1>>, <<0, Odd, 1, Blank, 0>>,
             <<90, NormalRow, 10, Odd, 0>>, <<90, NormalRow, 11, Odd, 0>>,
             <<91, NormalRow, 10, Odd, 0>>, <<90, NormalRow, 5, Odd, 6>>,
             <<99, NormalRow, 11, Odd, 0>>, <<99, NormalRow, 12, Odd, 0>>,
             <<0, NormalRow, 100, Odd, 0>>, <<0, NormalRow, 101, Odd, 0>>,
             <<100, NormalRow, 1, Odd, 0>>, <<101, NormalRow, 0, Odd, 0>>,
             <<0, Squat, 10, Late, 1>>, <<0, Squat, 4, Late, 7>>, <<0, Late, 10, Squat, 1>>,
             <<0, Late, 11, Squat, 0>>, <<0, Hot, 3, Squat, 9>>, <<2, Late, 12, Hot, 0>>,
             <<0, HighMin, 5, Odd, 0>>, <<0, HighMin, 6, Odd, 0>>, <<1, HighMin, 7, Late, 4>>}
        columns ==
            {GoldColumns \cup {"strain_name"},
             GoldColumns \cup {"strain_name", "thc_percentage", "cbd_percentage",
                                                  "height_cm", "flowering_days"},
             {"strain_name", "thc_percentage_min", "thc_percentage_max"}}
    IN  {[columns |-> c,
          rows    |-> <<>> \o Series(r[1]) \o Copies(r[2], r[3]) \o Copies(r[4], r[5])] :
            c \in columns, r \in recipes}

(***************************************************************************)
(* State machine                                                           *)
(***************************************************************************)
\* bounds
MaxCount == 1        \* cap of each extraction counter
MaxRows == 3         \* cap of the number of rows of the dataset

\* the MedallionProcessor instances
Processors == {"A", "B"}

VARIABLES
    extraction_stats,   \* self.extraction_stats of the extractor
    document,           \* index in Documents of the last document extracted, 0 before
    extracted,          \* outcome of the last extract_strain_data call, and
                        \* whether the caller has passed its record on
    stats_view,         \* the mapping the caller last took with
                        \* get_extraction_stats, and whether the caller has
                        \* written to it
    conversion_rules,   \* self.conversion_rules of every processor
    bronze,             \* the bronze record the caller holds
    result,             \* outcome of the last process_bronze_to_gold call on it:
                        \* the processor, the record given, whether that record
                        \* had been passed before, the gold record returned
    calls,              \* <<record given, gold record returned>> of every call
                        \* since the caller last took a record of the extractor
    validation_rules,   \* self.validation_rules of the detector
    outlier_stats,      \* self.outlier_stats of the detector
    df,                 \* the dataset
    report,             \* what detect_outliers returned for it, and the
                        \* counters the call found on the instance
    report_text         \* the lines generate_report made of the report

vars == <<extraction_stats, document, extracted, stats_view, conversion_rules, bronze, result,
          calls, validation_rules, outlier_stats, df, report, report_text>>

extractorVars == <<extraction_stats, document, extracted, stats_view>>
processorVars == <<conversion_rules, bronze, result, calls>>
detectorVars  == <<validation_rules, outlier_stats, df, report, report_text>>

NoCall   == [called |-> FALSE]
NoView   == [held |-> FALSE]
NoResult == [returned |-> FALSE]
NoReport == [reported |-> FALSE]

Init ==
    /\ extraction_stats = InitExtractionStats
    /\ document = 0
    /\ extracted = NoCall
    /\ stats_view = NoView
    /\ conversion_rules = [p \in Processors |-> InitConversionRules]
    /\ bronze = EmptyDict
    /\ result = NoResult
    /\ calls = {}
    /\ validation_rules = InitValidationRules
    /\ outlier_stats = InitOutlierStats
    /\ df = [columns |-> GoldColumns \cup {"strain_name"}, rows |-> <<>>]
    /\ report = NoReport
    /\ report_text = <<>>

\* extractor.extract_strain_data(Documents[i], url); the caller takes the
\* next document once the record of the last one has been normalized, or
\* after a call that raised
Extract(i) ==
    /\ IF extracted = NoCall THEN TRUE
       ELSE IF extracted.raised THEN TRUE
       ELSE extracted.passed /\ result # NoResult
    /\ \E r \in {extract_strain_data(extraction_stats, Documents[i])} :
           /\ \A c \in DOMAIN r.stats : r.stats[c] <= MaxCount
           /\ extraction_stats' = r.stats
           /\ extracted' = [raised     |-> r.raised,
                            raw_data   |-> r.raw_data,
                            strategies |-> r.strategies,
                            passed     |-> FALSE]
           /\ stats_view' = IF stats_view = NoView THEN stats_view
                            ELSE IF stats_view.shared
                                 THEN [stats_view EXCEPT !.mapping = r.stats]
                                 ELSE stats_view
    /\ document' = i
    /\ UNCHANGED <<processorVars, detectorVars>>

\* the caller takes extractor.get_extraction_stats()
GetStats ==
    /\ \E r \in {get_extraction_stats(extraction_stats)} :
           stats_view' = [held |-> TRUE, mapping |-> r.mapping,
                          shared |-> r.shared, written |-> FALSE]
    /\ UNCHANGED <<extraction_stats, document, extracted, processorVars, detectorVars>>

\* the caller assigns -1 to a key of the mapping it took; the instance sees
\* the assignment when the mapping is the object it holds
ModifyStats(c) ==
    /\ stats_view # NoView
    /\ IF stats_view = NoView THEN FALSE ELSE ~stats_view.written
    /\ stats_view' = [stats_view EXCEPT !.mapping[c] = -1, !.written = TRUE]
    /\ extraction_stats' = IF stats_view.shared
                           THEN [extraction_stats EXCEPT ![c] = -1]
                           ELSE extraction_stats
    /\ UNCHANGED <<document, extracted, processorVars, detectorVars>>

\* the caller hands the record returned by the extractor to the normalizer
PassOn ==
    /\ extracted # NoCall
    /\ ~extracted.raised
    /\ ~extracted.passed
    /\ extracted' = [extracted EXCEPT !.passed = TRUE]
    /\ bronze' = extracted.raw_data
    /\ result' = NoResult
    /\ calls' = {}
    /\ UNCHANGED <<conversion_rules, extraction_stats, document, stats_view, detectorVars>>

\* the caller takes a bronze record of its own
Select(b) ==
    /\ bronze' = b
    /\ result' = NoResult
    /\ UNCHANGED <<conversion_rules, calls, extractorVars, detectorVars>>

\* processor p: process_bronze_to_gold(bronze); the record passed is the
\* caller's own object, so it is afterwards what the call left of it
Normalize(p) ==
    /\ result = NoResult
    /\ \E r \in {process_bronze_to_gold(conversion_rules[p], bronze)} :
           /\ result' = [returned |-> TRUE, processor |-> p, given |-> bronze,
                         again |-> \E c \in calls : c[1] = bronze, gold |-> r.gold]
           /\ bronze' = r.bronze
           /\ calls' = calls \cup {<<bronze, r.gold>>}
    /\ UNCHANGED <<conversion_rules, extractorVars, detectorVars>>

\* the caller appends a row to the dataset
AddRow(row) ==
    /\ Len(df.rows) < MaxRows
    /\ df' = [df EXCEPT !.rows = Append(@, row)]
    /\ report' = NoReport
    /\ report_text' = <<>>
    /\ UNCHANGED <<validation_rules, outlier_stats, extractorVars, processorVars>>

\* detector.detect_outliers(df)
Detect ==
    /\ \E r \in {detect_outliers(validation_rules, outlier_stats, df)} :
           /\ report' = [reported            |-> TRUE,
                         earlier             |-> outlier_stats,
                         critical_outliers   |-> r.results.critical_outliers,
                         warnings            |-> r.results.warnings,
                         impossible_values   |-> r.results.impossible_values,
                         suspicious_patterns |-> r.results.suspicious_patterns,
                         summary             |-> r.results.summary]
           /\ outlier_stats' = r.stats
    /\ report_text' = <<>>
    /\ UNCHANGED <<validation_rules, df, extractorVars, processorVars>>

\* detector.generate_report(outlier_results) on the report of the last call
GenerateReport ==
    /\ report # NoReport
    /\ report_text' = generate_report(report)
    /\ UNCHANGED <<validation_rules, outlier_stats, df, report, extractorVars, processorVars>>

\* the pipeline: documents are extracted and the records normalized
Next ==
    \/ \E i \in 1..Len(Documents) : Extract(i)
    \/ PassOn
    \/ \E p \in Processors : Normalize(p)

Spec == Init /\ [][Next]_vars

\* the pipeline with a caller that reads the extractor's statistics
StatsNext ==
    \/ \E i \in 1..Len(Documents) : Extract(i)
    \/ PassOn
    \/ \E p \in Processors : Normalize(p)
    \/ GetStats
    \/ \E c \in DOMAIN InitExtractionStats : ModifyStats(c)

StatsSpec == Init /\ [][StatsNext]_vars

\* the normalizer on bronze records of the caller
NormalizeInit ==
    /\ Init!1 /\ Init!2 /\ Init!3 /\ Init!4 /\ Init!5
    /\ bronze \in BronzeInputs
    /\ Init!7 /\ Init!8 /\ Init!9 /\ Init!10 /\ Init!11 /\ Init!12 /\ Init!13

\* the caller passes the empty record, or once more a record passed before
NormalizeNext ==
    \/ \E b \in {EmptyDict} \cup {c[1] : c \in calls} : Select(b)
    \/ \E p \in Processors : Normalize(p)

NormalizeSpec == NormalizeInit /\ [][NormalizeNext]_vars

\* the detector on datasets built row by row
DetectInit ==
    /\ Init!1 /\ Init!2 /\ Init!3 /\ Init!4 /\ Init!5 /\ Init!6 /\ Init!7 /\ Init!8
    /\ Init!9 /\ Init!10
    /\ df \in {[columns |-> cols, rows |-> <<>>] : cols \in ColumnSets}
    /\ Init!12 /\ Init!13

DetectNext ==
    \/ \E row \in Rows : AddRow(row)
    \/ Detect

DetectSpec == DetectInit /\ [][DetectNext]_vars

\* the detector and its report on datasets of up to 111 rows
BulkInit ==
    /\ Init!1 /\ Init!2 /\ Init!3 /\ Init!4 /\ Init!5 /\ Init!6 /\ Init!7 /\ Init!8
    /\ Init!9 /\ Init!10
    /\ df \in BulkDatasets
    /\ Init!12 /\ Init!13

BulkNext ==
    \/ Detect
    \/ GenerateReport

BulkSpec == BulkInit /\ [][BulkNext]_vars

(***************************************************************************)
(* Claims about the program                                                *)
(***************************************************************************)
\* C1: in a dataset whose columns are the gold-record keys plus strain_name
\* (no plain thc_percentage column), every row whose thc_percentage_min is
\* above the hard maximum 45 has an entry in critical_outliers with field
\* thc_percentage_min, severity critical and violation_type above_maximum,
\* and summary.critical_outliers counts at least these entries.
C1_MinVariantCheckedWithoutPlainColumn ==
    (report # NoReport /\ "thc_percentage" \notin df.columns) =>
        LET high == {i \in 1..Len(df.rows) :
                        /\ df.rows[i].thc_percentage_min # Null
                        /\ df.rows[i].thc_percentage_min > N(45)}
        IN  /\ \A i \in high :
                  \E k \in 1..Len(report.critical_outliers) :
                      /\ report.critical_outliers[k].row_index = i - 1
                      /\ report.critical_outliers[k].field = "thc_percentage_min"
                      /\ report.critical_outliers[k].severity = "critical"
                      /\ report.critical_outliers[k].violation_type = "above_maximum"
            /\ report.summary.critical_outliers >= Cardinality(high)

C3_BlueDreamSample ==
    (/\ document # 0
     /\ Documents[document] = BlueDream
     /\ ~extracted.raised
     /\ result # NoResult
     /\ result.given = extracted.raw_data) =>
        /\ result.gold.thc_percentage_min = N(18)
        /\ result.gold.thc_percentage_max = N(24)
        /\ result.gold.flowering_days_min = N(63)
        /\ result.gold.flowering_days_max = N(70)
        /\ result.gold.height_cm_min = N(120)
        /\ result.gold.height_cm_max = N(180)

\* the sample document has been extracted and its record normalized
C3_Witness ==
    /\ document # 0
    /\ Documents[document] = BlueDream
    /\ ~extracted.raised
    /\ result # NoResult
    /\ result.given = extracted.raw_data
    /\ <<"thc_content", "raw">> \in DOMAIN result.given
    /\ result.gold.flowering_days_max = N(70)

\* C4: extract never raises: whatever the document, the call returns a
\* bronze record.
C4_ExtractNeverRaises ==
    extracted # NoCall => ~extracted.raised

\* C5: every <field>_raw key of the record returned by extract has a
\* <field>_source key, and both values come from one strategy, whose tag
\* the source is.
C5_RawAndSourceFromOneStrategy ==
    (extracted # NoCall /\ ~extracted.raised) =>
        LET outs == extracted.strategies
            raw_data == extracted.raw_data
            Tagged(k, source) ==
                CASE k = 1 -> Len(source) > 6 /\ SubSeq(source, 1, 6) = <<"T","a","b","l","e"," ">>
                  [] k = 2 -> source \in {<<"P","r","o","d","u","c","t"," ","d","e","s","c","r","i","p","t","i","o","n","s">>, <<"D","e","s","c","r","i","p","t","i","o","n"," ","c","o","n","t","e","x","t">>}
                  [] k = 3 -> source = <<"P","a","t","t","e","r","n"," ","m","a","t","c","h","i","n","g">>
                  [] k = 4 -> source \in {<<"I","m","a","g","e"," ","a","l","t"," ","t","e","x","t">>, <<"V","i","s","u","a","l"," ","e","l","e","m","e","n","t","s">>, <<"V","i","s","u","a","l"," ","i","n","d","i","c","a","t","o","r">>}
                  [] k = 5 -> source \in {<<"H","T","M","L"," ","m","e","t","a"," ","t","a","g">>, <<"H","T","M","L"," ","t","i","t","l","e"," ","t","a","g">>, <<"J","S","O","N","-","L","D"," ","s","t","r","u","c","t","u","r","e","d"," ","d","a","t","a">>}
        IN  \A key \in DOMAIN raw_data :
                key[2] = "raw" =>
                    /\ <<key[1], "source">> \in DOMAIN raw_data
                    /\ \E k \in 1..Len(outs) :
                           /\ key \in DOMAIN outs[k]
                           /\ <<key[1], "source">> \in DOMAIN outs[k]
                           /\ outs[k][key] = raw_data[key]
                           /\ outs[k][<<key[1], "source">>] = raw_data[<<key[1], "source">>]
                           /\ Tagged(k, raw_data[<<key[1], "source">>])

\* a flowering time found by the table scan and by pattern matching, with
\* different values and different tags
C5_Witness ==
    /\ extracted # NoCall
    /\ ~extracted.raised
    /\ <<"flowering_time", "raw">> \in DOMAIN extracted.strategies[1]
    /\ <<"flowering_time", "raw">> \in DOMAIN extracted.strategies[3]
    /\ extracted.strategies[1][<<"flowering_time", "raw">>]
           # extracted.strategies[3][<<"flowering_time", "raw">>]
    /\ <<"flowering_time", "source">> \in DOMAIN extracted.raw_data

\* C6: every key of the record returned by extract is <field>_raw or
\* <field>_source for a canonical field name; in particular a THC or CBD
\* value of a specification table is stored under thc_content / cbd_content.
C6_CanonicalKeys ==
    (extracted # NoCall /\ ~extracted.raised) =>
        \A key \in DOMAIN extracted.raw_data :
            /\ key[2] \in {"raw", "source"}
            /\ key[1] \in {"thc_content", "cbd_content", "flowering_time", "height",
                           "yield", "genetics", "effects", "flavors", "description",
                           "rating_visual", "difficulty", "meta_description",
                           "page_title", "structured_name", "structured_description",
                           "effects_context", "flavors_context", "growing_context"}

\* C7: the table scan returns, for every field to which a row of a
\* qualifying table maps (a row of at least 2 cells, with a label and a
\* value), the text of the second cell of the last such row in document
\* order and the tag "Table N", N the 1-based position of its table among
\* all tables of the document, and it returns nothing else.
C7_TableScan ==
    extracted # NoCall =>
        LET tables     == Tables(Documents[document])
            table_data == extracted.strategies[1]
            cells      == UNION {{<<n, r>> : r \in 1..Len(tables[n].rows)} :
                                    n \in 1..Len(tables)}
            Usable(h)  == LET row == tables[h[1]].rows[h[2]]
                          IN  /\ _is_specification_table(tables[h[1]])
                              /\ Len(row) >= 2
                              /\ Strip(row[1]) # <<>>
                              /\ Strip(row[2]) # <<>>
            Hits(f)    == {h \in cells :
                              /\ Usable(h)
                              /\ _map_table_field(Strip(tables[h[1]].rows[h[2]][1])) = f}
            NotBefore(h, g) == h[1] > g[1] \/ (h[1] = g[1] /\ h[2] >= g[2])
            Last(f)    == CHOOSE h \in Hits(f) : \A g \in Hits(f) : NotBefore(h, g)
            found      == {f \in {field_mappings[i][1] : i \in 1..Len(field_mappings)} :
                              Hits(f) # {}}
        IN  /\ DOMAIN table_data = UNION {{<<f, "raw">>, <<f, "source">>} : f \in found}
            /\ \A f \in found :
                   /\ table_data[<<f, "raw">>]
                          = Strip(tables[Last(f)[1]].rows[Last(f)[2]][2])
                   /\ table_data[<<f, "source">>] = <<"T","a","b","l","e"," ">> \o ShowInt(Last(f)[1])

\* three tables, the second of them no specification table: the height comes
\* from the last row that maps to it, in the third table, and the THC value
\* from the first table
C7_Witness ==
    /\ extracted # NoCall
    /\ Len(Tables(Documents[document])) = 3
    /\ ~_is_specification_table(Tables(Documents[document])[2])
    /\ <<"height", "source">> \in DOMAIN extracted.strategies[1]
    /\ extracted.strategies[1][<<"height", "source">>] = <<"T","a","b","l","e"," ","3">>
    /\ extracted.strategies[1][<<"height", "raw">>] = <<"T","a","l","l">>
    /\ extracted.strategies[1][<<"thc", "source">>] = <<"T","a","b","l","e"," ","1">>

C9_FixedKeysAndNulls ==
    result # NoResult =>
        LET b == result.given
            g == result.gold
            Missing(f) == <<f, "raw">> \notin DOMAIN b \/ b[<<f, "raw">>] = <<>>
        IN  /\ DOMAIN g = {"height_cm_min", "height_cm_max",
                           "flowering_days_min", "flowering_days_max",
                           "thc_percentage_min", "thc_percentage_max",
                           "cbd_percentage_min", "cbd_percentage_max",
                           "sativa_percentage", "indica_percentage",
                           "effects_standardized", "flavors_standardized",
                           "confidence_score"}
            /\ Missing("height") =>
                   g.height_cm_min = Null /\ g.height_cm_max = Null
            /\ Missing("flowering_time") =>
                   g.flowering_days_min = Null /\ g.flowering_days_max = Null
            /\ Missing("thc_content") =>
                   g.thc_percentage_min = Null /\ g.thc_percentage_max = Null
            /\ Missing("cbd_content") =>
                   g.cbd_percentage_min = Null /\ g.cbd_percentage_max = Null
            /\ Missing("genetics") =>
                   g.sativa_percentage = Null /\ g.indica_percentage = Null
            /\ Missing("effects") => g.effects_standardized = None
            /\ Missing("flavors") => g.flavors_standardized = None
            /\ b = EmptyDict => g.confidence_score = 1

\* a record with genetics absent beside a THC text that holds a percentage
\* has been normalized
C9_Witness ==
    /\ result # NoResult
    /\ <<"genetics", "raw">> \notin DOMAIN result.given
    /\ <<"thc_content", "raw">> \in DOMAIN result.given
    /\ result.gold.thc_percentage_min # Null
    /\ result.gold.sativa_percentage = Null

\* C10: confidence_score is the bucket of P = 100 * W / 14, W the sum of the
\* weights (height 2, flowering_time 3, thc_content 3, cbd_content 2,
\* genetics 2, effects 1, flavors 1) of the fields that are present with a
\* trimmed text longer than 2 characters: 5 from P >= 90, 4 from P >= 70,
\* 3 from P >= 50, 2 from P >= 30, else 1.
C10_ConfidenceBuckets ==
    result # NoResult =>
        LET b == result.given
            Counts(f) == /\ <<f, "raw">> \in DOMAIN b
                         /\ Len(Strip(b[<<f, "raw">>])) > 2
            w(f, n) == IF Counts(f) THEN n ELSE 0
            W == w("height", 2) + w("flowering_time", 3) + w("thc_content", 3)
                    + w("cbd_content", 2) + w("genetics", 2) + w("effects", 1)
                    + w("flavors", 1)
        IN  result.gold.confidence_score =
                IF 100 * W >= 90 * 14 THEN 5
                ELSE IF 100 * W >= 70 * 14 THEN 4
                ELSE IF 100 * W >= 50 * 14 THEN 3
                ELSE IF 100 * W >= 30 * 14 THEN 2
                ELSE 1

\* the boundary P = 50: a 2-character thc_content ("5%") that does not count
\* beside flowering_time, height and cbd_content, which weigh 7 of 14
C10_Witness ==
    /\ result # NoResult
    /\ <<"thc_content", "raw">> \in DOMAIN result.given
    /\ result.given[<<"thc_content", "raw">>] = <<"5","%">>
    /\ DOMAIN result.given = {<<"thc_content", "raw">>, <<"flowering_time", "raw">>,
                              <<"height", "raw">>, <<"cbd_content", "raw">>}
    /\ Len(Strip(result.given[<<"cbd_content", "raw">>])) > 2
    /\ result.gold.confidence_score = 3

\* C11: in every gold record, for height (when the text holds none of the
\* words short, medium, tall), flowering duration and THC/CBD percentage, the
\* min field is the first captured number of the match and the max field is
\* the second captured number when the match holds one, else the first;
\* "80-120cm" gives 80 and 120, "5 feet" gives 152.4 and 152.4.
C11_MinMaxSelection ==
    \A c \in calls :
        LET b == c[1]
            g == c[2]
            height    == Get(b, <<"height", "raw">>)
            flowering == Get(b, <<"flowering_time", "raw">>)
            Second(text, m) == Group(text, m, 2) # None
            Ranged(text, pat, ic, lo, hi, First(_, _), Other(_, _)) ==
                LET m == SearchFrom(text, ic, pat, 1)
                IN  m.ok => /\ lo = First(text, m)
                            /\ hi = IF Second(text, m) THEN Other(text, m) ELSE First(text, m)
            Float1(text, m) == ParseFloat(Group(text, m, 1))
            Float2(text, m) == ParseFloat(Group(text, m, 2))
            Feet1(text, m)  == (ParseFloat(Group(text, m, 1)) * 3048) \div 100
            Feet2(text, m)  == (ParseFloat(Group(text, m, 2)) * 3048) \div 100
            Weeks1(text, m) == N(7 * ParseInt(Group(text, m, 1)))
            Weeks2(text, m) == N(7 * ParseInt(Group(text, m, 2)))
            Days1(text, m)  == N(ParseInt(Group(text, m, 1)))
            Days2(text, m)  == N(ParseInt(Group(text, m, 2)))
            Worded(text) == \E w \in {<<"s","h","o","r","t">>, <<"m","e","d","i","u","m">>, <<"t","a","l","l">>} :
                                Contains(ToLower(text), w)
        IN  /\ Truthy(height) /\ ~Worded(height) =>
                /\ Ranged(height, cm_pattern, TRUE, g.height_cm_min, g.height_cm_max,
                          Float1, Float2)
                /\ ~SearchFrom(height, TRUE, cm_pattern, 1).ok =>
                      Ranged(height, feet_pattern, TRUE, g.height_cm_min,
                             g.height_cm_max, Feet1, Feet2)
            /\ Truthy(flowering) =>
                /\ Ranged(flowering, week_pattern, TRUE, g.flowering_days_min,
                          g.flowering_days_max, Weeks1, Weeks2)
                /\ ~SearchFrom(flowering, TRUE, week_pattern, 1).ok =>
                      Ranged(flowering, day_pattern, TRUE, g.flowering_days_min,
                             g.flowering_days_max, Days1, Days2)
            /\ \A f \in {"thc", "cbd"} :
                  LET text == Get(b, <<IF f = "thc" THEN "thc_content" ELSE "cbd_content", "raw">>)
                      lo   == IF f = "thc" THEN g.thc_percentage_min ELSE g.cbd_percentage_min
                      hi   == IF f = "thc" THEN g.thc_percentage_max ELSE g.cbd_percentage_max
                  IN  Truthy(text) => Ranged(text, percent_pattern, FALSE, lo, hi, Float1, Float2)
            /\ height = <<"8","0","-","1","2","0","c","m">> => g.height_cm_min = N(80) /\ g.height_cm_max = N(120)
            /\ height = <<"5"," ","f","e","e","t">> => g.height_cm_min = 15240 /\ g.height_cm_max = 15240

\* the height text "80-120cm" has been normalized to 80 and 120
C11_Witness ==
    /\ result # NoResult
    /\ Get(result.given, <<"height", "raw">>) = <<"8","0","-","1","2","0","c","m">>
    /\ result.gold.height_cm_min = N(80)
    /\ result.gold.height_cm_max = N(120)

\* C12: in every report, a row whose sativa_percentage and indica_percentage
\* are both non-null has, with d = |sativa + indica - 100|, no
\* genetics_not_100_percent finding when d <= 1, exactly one of severity
\* warning when 1 < d <= 5 and exactly one of severity critical when d > 5;
\* a row where either percentage is null has none.
C12_GeneticsTolerance ==
    report # NoReport =>
        \A i \in 1..Len(df.rows) :
            LET sativa == df.rows[i]["sativa_percentage"]
                indica == df.rows[i]["indica_percentage"]
                d      == IF sativa + indica >= N(100) THEN sativa + indica - N(100)
                          ELSE N(100) - (sativa + indica)
                found  == {j \in 1..Len(report.impossible_values) :
                             /\ report.impossible_values[j].violation_type
                                   = "genetics_not_100_percent"
                             /\ report.impossible_values[j].row_index = i - 1}
            IN  IF sativa = Null \/ indica = Null THEN found = {}
                ELSE IF d <= N(1) THEN found = {}
                ELSE /\ Cardinality(found) = 1
                     /\ \A j \in found :
                           report.impossible_values[j].severity
                              = IF d <= N(5) THEN "warning" ELSE "critical"

\* a report on a dataset holding the rows 60/39, 60/35 and 60/20: the first
\* has no genetics finding, the second a warning, the third a critical one
C12_Witness ==
    /\ report # NoReport
    /\ Len(df.rows) = 3
    /\ df.rows[1]["sativa_percentage"] = N(60) /\ df.rows[1]["indica_percentage"] = N(39)
    /\ df.rows[2]["sativa_percentage"] = N(60) /\ df.rows[2]["indica_percentage"] = N(35)
    /\ df.rows[3]["sativa_percentage"] = N(60) /\ df.rows[3]["indica_percentage"] = N(20)
    /\ \E j \in 1..Len(report.impossible_values) :
          /\ report.impossible_values[j].row_index = 1
          /\ report.impossible_values[j].severity = "warning"
    /\ \E j \in 1..Len(report.impossible_values) :
          /\ report.impossible_values[j].row_index = 2
          /\ report.impossible_values[j].severity = "critical"
    /\ \A j \in 1..Len(report.impossible_values) :
          report.impossible_values[j].row_index # 0

\* C13: every percentage field of every gold record (thc_percentage_min/max,
\* cbd_percentage_min/max, sativa_percentage, indica_percentage) is null or
\* a number from 0 to 100.
C13_PercentagesWithinRange ==
    \A c \in calls :
        \A v \in {c[2].thc_percentage_min, c[2].thc_percentage_max,
                  c[2].cbd_percentage_min, c[2].cbd_percentage_max,
                  c[2].sativa_percentage, c[2].indica_percentage} :
            v = Null \/ (0 <= v /\ v <= N(100))

\* C14: in every report, of the empty dataset too, the summary has
\* data_quality_score = max(0, 100 - outlier_percentage), so that the score
\* lies in 0..100 and is 100 exactly when no finding was counted.
C14_QualityScore ==
    report # NoReport =>
        LET summary == report.summary
            rest    == N(100) - summary.outlier_percentage
        IN  /\ summary.data_quality_score = IF rest > 0 THEN rest ELSE 0
            /\ 0 <= summary.data_quality_score
            /\ summary.data_quality_score <= N(100)
            /\ summary.data_quality_score = N(100) <=> summary.total_outliers = 0

\* C15: in every report, summary.clean_records is the number of rows that
\* have no entry in critical_outliers and none in impossible_values, and so
\* lies between 0 and total_records.
C15_CleanRecords ==
    report # NoReport =>
        LET flagged(findings) == {findings[j].row_index + 1 : j \in 1..Len(findings)}
            clean == (1..Len(df.rows)) \ (flagged(report.critical_outliers)
                                            \cup flagged(report.impossible_values))
        IN  /\ report.summary.clean_records = Cardinality(clean)
            /\ 0 <= report.summary.clean_records
            /\ report.summary.clean_records <= report.summary.total_records

\* C16: whatever calls came before on the instance, the report of a dataset
\* (the four finding lists and the summary) is the report a fresh detector
\* returns for that dataset, and the validation rules are as constructed.
C16_DetectStateless ==
    /\ validation_rules = InitValidationRules
    /\ report # NoReport =>
          LET fresh == detect_outliers(InitValidationRules, InitOutlierStats, df).results
          IN  /\ report.critical_outliers = fresh.critical_outliers
              /\ report.warnings = fresh.warnings
              /\ report.impossible_values = fresh.impossible_values
              /\ report.suspicious_patterns = fresh.suspicious_patterns
              /\ report.summary = fresh.summary

\* a report on a dataset without findings, by an instance whose call before
\* was on another dataset and counted findings
C16_Witness ==
    /\ report # NoReport
    /\ report.earlier.outliers_found > 0
    /\ report.earlier.total_records # Len(df.rows)
    /\ report.summary.total_outliers # report.earlier.outliers_found
    /\ report.summary.total_records = Len(df.rows)

C19_EarliestExpressionWins ==
    extracted # NoCall =>
        LET page_text    == PageText(Documents[document])
            pattern_data == extracted.strategies[3]
        IN  \A f \in 1..Len(patterns) :
               LET field_name == patterns[f][1]
                   found      == [j \in 1..Len(patterns[f][2]) |->
                                     FirstUsable(page_text, patterns[f][2][j], 1)]
                   usable     == {j \in DOMAIN found : found[j].ok}
               IN  IF usable = {}
                   THEN <<field_name, "raw">> \notin DOMAIN pattern_data
                   ELSE /\ <<field_name, "raw">> \in DOMAIN pattern_data
                        /\ pattern_data[<<field_name, "raw">>] =
                              Strip(Group(page_text, found[SetMin(usable)], 1))

\* C20: when the raw text of a numeric field (height, flowering_time,
\* thc_content, cbd_content, genetics) is present but matches none of the
\* field's numeric patterns, the gold fields of that field are null and the
\* field's weight is not part of the confidence score: confidence_score is
\* the bucket of the weights of the other fields that are present with a
\* trimmed text longer than 2 characters.
C20_NormalizationMiss ==
    result # NoResult =>
        LET b == result.given
            g == result.gold
            Text(f) == b[<<f, "raw">>]
            Present(f) == <<f, "raw">> \in DOMAIN b /\ Text(f) # None /\ Text(f) # <<>>
            Found(f, ic, re) == SearchFrom(Text(f), ic, re, 1).ok
            Matches(f) ==
                CASE f = "height" ->
                        \/ Contains(ToLower(Text(f)), <<"s","h","o","r","t">>)
                        \/ Contains(ToLower(Text(f)), <<"m","e","d","i","u","m">>)
                        \/ Contains(ToLower(Text(f)), <<"t","a","l","l">>)
                        \/ Found(f, TRUE, cm_pattern)
                        \/ Found(f, TRUE, feet_pattern)
                  [] f = "flowering_time" ->
                        Found(f, TRUE, week_pattern) \/ Found(f, TRUE, day_pattern)
                  [] f \in {"thc_content", "cbd_content"} ->
                        Found(f, FALSE, percent_pattern)
                  [] f = "genetics" ->
                        \/ Found(f, TRUE, genetics_pattern(<<"s","a","t","i","v","a">>))
                        \/ Found(f, TRUE, genetics_pattern(<<"i","n","d","i","c","a">>))
                  [] OTHER -> TRUE
            Miss(f) == Present(f) /\ ~Matches(f)
            w(f, n) == IF Present(f) /\ Len(Strip(Text(f))) > 2 /\ ~Miss(f) THEN n ELSE 0
            W == w("height", 2) + w("flowering_time", 3) + w("thc_content", 3)
                    + w("cbd_content", 2) + w("genetics", 2) + w("effects", 1)
                    + w("flavors", 1)
        IN  /\ Miss("height") => g.height_cm_min = Null /\ g.height_cm_max = Null
            /\ Miss("flowering_time") =>
                   g.flowering_days_min = Null /\ g.flowering_days_max = Null
            /\ Miss("thc_content") =>
                   g.thc_percentage_min = Null /\ g.thc_percentage_max = Null
            /\ Miss("cbd_content") =>
                   g.cbd_percentage_min = Null /\ g.cbd_percentage_max = Null
            /\ Miss("genetics") =>
                   g.sativa_percentage = Null /\ g.indica_percentage = Null
            /\ g.confidence_score =
                   IF 100 * W >= 90 * 14 THEN 5
                   ELSE IF 100 * W >= 70 * 14 THEN 4
                   ELSE IF 100 * W >= 50 * 14 THEN 3
                   ELSE IF 100 * W >= 30 * 14 THEN 2
                   ELSE 1

\* C18: a call of get_extraction_stats changes no counter and returns the
\* counters as the extract calls left them, also after the caller wrote to a
\* mapping returned before; a write to the returned mapping changes neither
\* the extractor's counters nor the outcome of the last extract call.
C18_StatsAccessorReadOnly ==
    [][/\ GetStats =>
             /\ extraction_stats' = extraction_stats
             /\ stats_view'.mapping = extraction_stats
       /\ (\E c \in DOMAIN InitExtractionStats : ModifyStats(c)) =>
             /\ extraction_stats' = extraction_stats
             /\ extracted' = extracted
             /\ stats_view'.mapping # extraction_stats']_vars

\* the caller holds a mapping it wrote to, and the extractor has counted a
\* strategy since the mapping was taken
C18_Witness ==
    /\ stats_view # NoView
    /\ stats_view.written
    /\ \E c \in DOMAIN extraction_stats : stats_view.mapping[c] = -1
    /\ \E c \in DOMAIN extraction_stats :
          stats_view.mapping[c] >= 0 /\ stats_view.mapping[c] < extraction_stats[c]
    /\ \A c \in DOMAIN extraction_stats : extraction_stats[c] <= MaxCount

\* C21: when the raw height text contains short, medium or tall (in any
\* case, tested in that order) height_cm_min and height_cm_max are both 80,
\* 120 or 180, also when the text holds a measurement; otherwise the numbers
\* of a centimetre measurement are taken as they are; otherwise the numbers
\* of a feet measurement are multiplied by 30.48; otherwise both are null.
C21_HeightPrecedence ==
    result # NoResult =>
        LET height == Get(result.given, <<"height", "raw">>)
            g      == result.gold
            Has(w) == Contains(ToLower(height), w)
            cm     == SearchFrom(height, TRUE, cm_pattern, 1)
            feet   == SearchFrom(height, TRUE, feet_pattern, 1)
            Both(v) == g.height_cm_min = v /\ g.height_cm_max = v
            Pair(m, Value(_)) ==
                /\ g.height_cm_min = Value(Group(height, m, 1))
                /\ g.height_cm_max = Value(Group(height, m,
                                       IF Group(height, m, 2) # None THEN 2 ELSE 1))
            Direct(t) == ParseFloat(t)
            Feet(t)   == (ParseFloat(t) * 3048) \div 100
        IN  Truthy(height) =>
               IF Has(<<"s","h","o","r","t">>) THEN Both(N(80))
               ELSE IF Has(<<"m","e","d","i","u","m">>) THEN Both(N(120))
               ELSE IF Has(<<"t","a","l","l">>) THEN Both(N(180))
               ELSE IF cm.ok THEN Pair(cm, Direct)
               ELSE IF feet.ok THEN Pair(feet, Feet)
               ELSE Both(Null)

\* a height text with a qualitative term and a measurement, "short, 60cm",
\* has been normalized to 80 and 80
C21_Witness ==
    /\ result # NoResult
    /\ Get(result.given, <<"height", "raw">>) = <<"s","h","o","r","t",","," ","6","0","c","m">>
    /\ result.gold.height_cm_min = N(80)
    /\ result.gold.height_cm_max = N(80)

\* C22: when the raw flowering text holds a week-scale match,
\* flowering_days_min and flowering_days_max are 7 times the matched week
\* numbers, whether or not a day-scale number stands before or after it;
\* with no week-scale match a day-scale match gives its numbers unchanged;
\* with neither, both fields are null.
C22_WeeksBeforeDays ==
    result # NoResult =>
        LET flowering == Get(result.given, <<"flowering_time", "raw">>)
            g     == result.gold
            weeks == SearchFrom(flowering, TRUE, week_pattern, 1)
            days  == SearchFrom(flowering, TRUE, day_pattern, 1)
            First(m)  == ParseInt(Group(flowering, m, 1))
            Second(m) == IF Group(flowering, m, 2) # None
                         THEN ParseInt(Group(flowering, m, 2)) ELSE First(m)
        IN  Truthy(flowering) =>
               IF weeks.ok
               THEN /\ g.flowering_days_min = N(7 * First(weeks))
                    /\ g.flowering_days_max = N(7 * Second(weeks))
               ELSE IF days.ok
               THEN /\ g.flowering_days_min = N(First(days))
                    /\ g.flowering_days_max = N(Second(days))
               ELSE /\ g.flowering_days_min = Null
                    /\ g.flowering_days_max = Null

\* "60 days or 9 weeks", a day-scale number before the week-scale one, has
\* been normalized to 63 and 63
C22_Witness ==
    /\ result # NoResult
    /\ Get(result.given, <<"flowering_time", "raw">>) = <<"6","0"," ","d","a","y","s"," ","o","r"," ","9"," ","w","e","e","k","s">>
    /\ result.gold.flowering_days_min = N(63)
    /\ result.gold.flowering_days_max = N(63)

\* C23: effects_standardized and flavors_standardized are the canonical
\* labels of exactly the keywords of the table that occur in the lower-cased
\* raw text, each once, joined with ", " in the order of the table whatever
\* their order or repetition in the text ("happy and relaxing" gives
\* "Relaxed, Happy"); null when no keyword occurs or the raw text is absent.
C23_LabelsInTableOrder ==
    result # NoResult =>
        LET effects == <<<<<<"r","e","l","a","x","i","n","g">>, <<"R","e","l","a","x","e","d">>>>, <<<<"e","u","p","h","o","r","i","c">>, <<"E","u","p","h","o","r","i","c">>>>,
                         <<<<"u","p","l","i","f","t","i","n","g">>, <<"U","p","l","i","f","t","e","d">>>>, <<<<"e","n","e","r","g","e","t","i","c">>, <<"E","n","e","r","g","e","t","i","c">>>>,
                         <<<<"c","r","e","a","t","i","v","e">>, <<"C","r","e","a","t","i","v","e">>>>, <<<<"f","o","c","u","s","e","d">>, <<"F","o","c","u","s","e","d">>>>,
                         <<<<"h","a","p","p","y">>, <<"H","a","p","p","y">>>>, <<<<"s","l","e","e","p","y">>, <<"S","l","e","e","p","y">>>>>>
            flavors == <<<<<<"c","i","t","r","u","s">>, <<"C","i","t","r","u","s">>>>, <<<<"l","e","m","o","n">>, <<"L","e","m","o","n">>>>,
                         <<<<"o","r","a","n","g","e">>, <<"O","r","a","n","g","e">>>>, <<<<"b","e","r","r","y">>, <<"B","e","r","r","y">>>>,
                         <<<<"s","w","e","e","t">>, <<"S","w","e","e","t">>>>, <<<<"e","a","r","t","h","y">>, <<"E","a","r","t","h","y">>>>,
                         <<<<"p","i","n","e">>, <<"P","i","n","e">>>>, <<<<"d","i","e","s","e","l">>, <<"D","i","e","s","e","l">>>>,
                         <<<<"s","k","u","n","k">>, <<"S","k","u","n","k">>>>, <<<<"f","r","u","i","t","y">>, <<"F","r","u","i","t","y">>>>>>
            Expected(table, raw) ==
                LET occurring == IF raw = None THEN <<>>
                                 ELSE SelectSeq(table, LAMBDA e : Contains(ToLower(raw), e[1]))
                    labels    == [i \in 1..Len(occurring) |-> occurring[i][2]]
                IN  IF labels = <<>> THEN None ELSE JoinWith(labels, <<",", " ">>)
            effects_raw == Get(result.given, <<"effects", "raw">>)
            flavors_raw == Get(result.given, <<"flavors", "raw">>)
        IN  /\ result.gold.effects_standardized = Expected(effects, effects_raw)
            /\ result.gold.flavors_standardized = Expected(flavors, flavors_raw)
            /\ effects_raw = <<"h","a","p","p","y"," ","a","n","d"," ","r","e","l","a","x","i","n","g">> =>
                   result.gold.effects_standardized = <<"R","e","l","a","x","e","d",","," ","H","a","p","p","y">>

\* "Sleepy, happy, HAPPY", keywords out of table order and one repeated, has
\* been standardized to "Happy, Sleepy"
C23_Witness ==
    /\ result # NoResult
    /\ Get(result.given, <<"effects", "raw">>) = <<"S","l","e","e","p","y",","," ","h","a","p","p","y",","," ","H","A","P","P","Y">>
    /\ result.gold.effects_standardized = <<"H","a","p","p","y",","," ","S","l","e","e","p","y">>

\* C24: in every report, for every field configured with a typical band
\* (typical_range, or typical_max above the hard minimum) and every column
\* checked for it, a non-null value inside the hard bounds and below the
\* band has exactly one finding, a below_typical warning, a value inside the
\* hard bounds and above the band exactly one, an above_typical warning, a
\* value inside the band none, and a value outside the hard bounds a
\* critical finding and no typical-range warning.
C24_TypicalRangeWarnings ==
    report # NoReport =>
        \A r \in 1..Len(InitValidationRules) :
            LET field == InitValidationRules[r][1]
                rules == InitValidationRules[r][2]
                band  == IF "typical_range" \in DOMAIN rules THEN rules.typical_range
                         ELSE <<rules.min, rules.typical_max>>
                checked == IF field \in df.columns
                           THEN {field, MinField(field), MaxField(field)} \cap df.columns
                           ELSE {}
                Found(i, c, type, severity) ==
                    Cardinality({j \in 1..Len(report.critical_outliers) :
                                    /\ report.critical_outliers[j].row_index = i - 1
                                    /\ report.critical_outliers[j].field = c
                                    /\ report.critical_outliers[j].violation_type \in type
                                    /\ report.critical_outliers[j].severity \in severity})
                typical == {"below_typical", "above_typical"}
                hard    == {"below_minimum", "above_maximum"}
                any     == {"critical", "warning"}
            IN  DOMAIN rules \cap {"typical_range", "typical_max"} # {} =>
                   \A c \in checked : \A i \in 1..Len(df.rows) :
                      LET v == df.rows[i][c]
                      IN  v # Null =>
                             IF v < rules.min \/ v > rules.max
                             THEN /\ Found(i, c, hard, {"critical"}) >= 1
                                  /\ Found(i, c, typical, any) = 0
                             ELSE IF v < band[1]
                             THEN /\ Found(i, c, {"below_typical"}, {"warning"}) = 1
                                  /\ Found(i, c, typical \cup hard, any) = 1
                             ELSE IF v > band[2]
                             THEN /\ Found(i, c, {"above_typical"}, {"warning"}) = 1
                                  /\ Found(i, c, typical \cup hard, any) = 1
                             ELSE Found(i, c, typical \cup hard, any) = 0

\* C25: in every report, for each of the five (_min, _max) column pairs of
\* which both columns are present, a row has exactly one
\* min_greater_than_max finding, of severity critical, in impossible_values
\* when both values are non-null and min > max, and none when min <= max or
\* either value is null.
C25_MinGreaterThanMax ==
    report # NoReport =>
        \A metric \in {"thc_percentage", "cbd_percentage", "height_cm",
                       "flowering_days", "yield_grams_per_m2"} :
            LET min_field == MinField(metric)
                max_field == MaxField(metric)
                Found(i) ==
                    {j \in 1..Len(report.impossible_values) :
                        /\ report.impossible_values[j].violation_type = "min_greater_than_max"
                        /\ report.impossible_values[j].row_index = i - 1
                        /\ report.impossible_values[j].fields = <<min_field, max_field>>}
            IN  IF {min_field, max_field} \subseteq df.columns
                THEN \A i \in 1..Len(df.rows) :
                        LET lo == df.rows[i][min_field]
                            hi == df.rows[i][max_field]
                        IN  IF lo # Null /\ hi # Null /\ lo > hi
                            THEN /\ Cardinality(Found(i)) = 1
                                 /\ \A j \in Found(i) :
                                       report.impossible_values[j].severity = "critical"
                            ELSE Found(i) = {}
                ELSE \A j \in 1..Len(report.impossible_values) :
                        report.impossible_values[j].violation_type = "min_greater_than_max"
                            => report.impossible_values[j].fields # <<min_field, max_field>>

\* a report on a dataset with the yield columns that holds a row with
\* min > max, a row with min = max and a row with a null maximum
C25_Witness ==
    /\ report # NoReport
    /\ "yield_grams_per_m2_min" \in df.columns
    /\ \E i, j, k \in 1..Len(df.rows) :
          /\ df.rows[i].yield_grams_per_m2_min > df.rows[i].yield_grams_per_m2_max
          /\ df.rows[j].cbd_percentage_min = df.rows[j].cbd_percentage_max
          /\ df.rows[k].flowering_days_max = Null
          /\ df.rows[k].flowering_days_min # Null
    /\ \E f \in 1..Len(report.impossible_values) :
          report.impossible_values[f].violation_type = "min_greater_than_max"

\* C26: in every report, each potency column (thc_percentage_min/max,
\* cbd_percentage_min/max) has one too_many_round_numbers warning when the
\* column is present, holds a non-null value, and more than 80% of its
\* non-null values are multiples of 5 (0 included), and none otherwise: a
\* share of exactly 80% and a column of nulls give none, and nulls count
\* neither as round nor as values.
C26_RoundNumbers ==
    report # NoReport =>
        \A f \in {"thc_percentage_min", "thc_percentage_max",
                  "cbd_percentage_min", "cbd_percentage_max"} :
            LET values == {i \in 1..Len(df.rows) : df.rows[i][f] # Null}
                round  == {i \in values : df.rows[i][f] % N(5) = 0}
                found  == {j \in 1..Len(report.suspicious_patterns) :
                              /\ report.suspicious_patterns[j].pattern_type
                                    = "too_many_round_numbers"
                              /\ report.suspicious_patterns[j].field = f}
            IN  IF /\ f \in df.columns
                   /\ values # {}
                   /\ 100 * Cardinality(round) > 80 * Cardinality(values)
                THEN /\ Cardinality(found) = 1
                     /\ \A j \in found : report.suspicious_patterns[j].severity = "warning"
                ELSE found = {}

\* a report on five rows of which four hold a THC minimum that is a
\* multiple of 5: the share is exactly 80% and the column has no finding,
\* while the CBD minimum, 0 in one row of five, has none either
C26_Witness ==
    /\ report # NoReport
    /\ Len(df.rows) = 5
    /\ Cardinality({i \in 1..5 : df.rows[i].thc_percentage_min # Null
                                    /\ df.rows[i].thc_percentage_min % N(5) = 0}) = 4
    /\ \A i \in 1..5 : df.rows[i].thc_percentage_min # Null
    /\ \E i \in 1..5 : df.rows[i].cbd_percentage_min = 0
    /\ \A j \in 1..Len(report.suspicious_patterns) :
          report.suspicious_patterns[j].field # "thc_percentage_min"

\* C27: in every report there is one high_duplicate_rate warning when the
\* dataset has more than 100 rows and the rows whose values in the key
\* columns present (of thc_percentage_max, cbd_percentage_max,
\* flowering_days_max) equal those of another row are more than 10% of the
\* rows, and none otherwise; a dataset of exactly 100 rows has none.
C27_DuplicateRate ==
    report # NoReport =>
        LET key   == {"thc_percentage_max", "cbd_percentage_max", "flowering_days_max"}
                        \cap df.columns
            dup   == {i \in 1..Len(df.rows) :
                         \E k \in 1..Len(df.rows) :
                             k # i /\ \A f \in key : df.rows[i][f] = df.rows[k][f]}
            found == {j \in 1..Len(report.suspicious_patterns) :
                         report.suspicious_patterns[j].pattern_type = "high_duplicate_rate"}
        IN  IF Len(df.rows) > 100 /\ 10 * Cardinality(dup) > Len(df.rows)
            THEN Cardinality(found) = 1
            ELSE found = {}

\* C28: the text of a report lists the first 10 findings of severity
\* critical of the bound checks, in finding order, or all of them when they
\* are fewer, the first 5 impossible-combination findings and every
\* suspicious-pattern finding; a section has a truncation notice exactly
\* when it has more findings than it lists, and the notice states the number
\* of findings not listed.
C28_ReportListing ==
    report_text # <<>> =>
        LET First(list, n) == SubSeq(list, 1, IF Len(list) < n THEN Len(list) ELSE n)
            Lines(kind)    == SelectSeq(report_text, LAMBDA line : line[1] = kind)
            critical == SelectSeq(report.critical_outliers,
                                  LAMBDA outlier : outlier.severity = "critical")
            shown    == First(critical, 10)
            combined == First(report.impossible_values, 5)
            Notice(all, listed) ==
                IF Len(all) > Len(listed) THEN <<<<"more", Len(all) - Len(listed)>>>> ELSE <<>>
        IN  /\ Lines("critical") =
                  [j \in 1..Len(shown) |->
                      <<"critical", shown[j].strain_name, shown[j].field, shown[j].value,
                        shown[j].violation_type>>]
            /\ Lines("impossible") =
                  [j \in 1..Len(combined) |->
                      <<"impossible", combined[j].strain_name, combined[j].violation_type>>]
            /\ Lines("pattern") =
                  [j \in 1..Len(report.suspicious_patterns) |->
                      <<"pattern", report.suspicious_patterns[j].pattern_type>>]
            /\ Lines("more") =
                  Notice(critical, shown) \o Notice(report.impossible_values, combined)

\* C29: in every report of detect, summary.total_outliers is the number of
\* entries of critical_outliers plus the number of entries of
\* impossible_values; every such entry has severity critical or warning, so
\* summary.critical_outliers + summary.warnings = summary.total_outliers; the
\* counts are those of the two lists alone, whatever suspicious patterns were
\* found; summary.total_records is the number of rows of the dataset.
C29_SummaryArithmetic ==
    report # NoReport =>
        LET summary  == report.summary
            findings == report.critical_outliers \o report.impossible_values
            Count(severity) ==
                Cardinality({j \in 1..Len(findings) : findings[j].severity = severity})
        IN  /\ summary.total_outliers = Len(report.critical_outliers)
                                          + Len(report.impossible_values)
            /\ \A j \in 1..Len(findings) : findings[j].severity \in {"critical", "warning"}
            /\ summary.critical_outliers = Count("critical")
            /\ summary.warnings = Count("warning")
            /\ summary.critical_outliers + summary.warnings = summary.total_outliers
            /\ summary.total_records = Len(df.rows)

\* a report with critical findings, warnings and a suspicious pattern
C29_Witness ==
    /\ report # NoReport
    /\ report.suspicious_patterns # <<>>
    /\ report.summary.critical_outliers > 0
    /\ report.summary.warnings > 0
    /\ report.critical_outliers # <<>>
    /\ report.impossible_values # <<>>
    /\ report.summary.total_records > 0

\* C30: in the gold record of every bronze record each of the pairs
\* (height_cm_min, height_cm_max), (flowering_days_min, flowering_days_max),
\* (thc_percentage_min, thc_percentage_max), (cbd_percentage_min,
\* cbd_percentage_max) is both null or both non-null; the two are equal when
\* the matched text holds a single number or the height is a qualitative
\* term; a range is never reordered: min comes from the first number as
\* written and max from the second, also when the first is the larger one.
C30_PairsConsistent ==
    result # NoResult =>
        LET g == result.gold
            Raw(f) == Get(result.given, <<f, "raw">>)
            Worded == /\ Truthy(Raw("height"))
                      /\ \E w \in {<<"s","h","o","r","t">>, <<"m","e","d","i","u","m">>,
                                   <<"t","a","l","l">>} : Contains(ToLower(Raw("height")), w)
            \* the match the values of a field are taken from: <<text, match, unit>>
            Taken(f) ==
                LET text == Raw(f)
                    Try(pat, ic, unit) == <<text, SearchFrom(text, ic, pat, 1), unit>>
                    No == <<text, [ok |-> FALSE], "none">>
                IN  IF ~Truthy(text) THEN No
                    ELSE CASE f = "height" ->
                                IF Worded THEN No
                                ELSE IF Try(cm_pattern, TRUE, "cm")[2].ok
                                     THEN Try(cm_pattern, TRUE, "cm")
                                     ELSE Try(feet_pattern, TRUE, "feet")
                           [] f = "flowering_time" ->
                                IF Try(week_pattern, TRUE, "weeks")[2].ok
                                THEN Try(week_pattern, TRUE, "weeks")
                                ELSE Try(day_pattern, TRUE, "days")
                           [] OTHER -> Try(percent_pattern, FALSE, "percent")
            Number(t, n) ==
                LET digits == Group(t[1], t[2], n)
                IN  CASE t[3] = "feet"  -> (ParseFloat(digits) * 3048) \div 100
                      [] t[3] = "weeks" -> N(7 * ParseInt(digits))
                      [] t[3] = "days"  -> N(ParseInt(digits))
                      [] OTHER          -> ParseFloat(digits)
            Pair(f, lo, hi) ==
                LET t == Taken(f)
                IN  /\ (lo = Null) <=> (hi = Null)
                    /\ t[2].ok =>
                          IF Group(t[1], t[2], 2) = None
                          THEN lo = hi /\ lo # Null
                          ELSE lo = Number(t, 1) /\ hi = Number(t, 2)
        IN  /\ Pair("height", g.height_cm_min, g.height_cm_max)
            /\ Pair("flowering_time", g.flowering_days_min, g.flowering_days_max)
            /\ Pair("thc_content", g.thc_percentage_min, g.thc_percentage_max)
            /\ Pair("cbd_content", g.cbd_percentage_min, g.cbd_percentage_max)
            /\ Worded => g.height_cm_min = g.height_cm_max /\ g.height_cm_min # Null

\* the gold record of the THC text "24-18%": the range is kept as written,
\* with a minimum above the maximum
C30_Witness ==
    /\ result # NoResult
    /\ Get(result.given, <<"thc_content", "raw">>) = <<"2","4","-","1","8","%">>
    /\ result.gold.thc_percentage_min = N(24)
    /\ result.gold.thc_percentage_max = N(18)
    /\ result.gold.cbd_percentage_min = Null
    /\ result.gold.cbd_percentage_max = Null

====
